---------------------------- MODULE Spec2Model ----------------------------
(***************************************************************************)
(* NoiseTunnel.attribute (captum/attr/_core/noise_tunnel.py) as a state    *)
(* machine: one invocation of attribute over a wrapped attribution method. *)
(*                                                                         *)
(* Tensors are one-dimensional (shape (B,)): a tensor is a non-empty       *)
(* sequence of integers, a bundle a sequence of tensors.  Every operation  *)
(* of the code on the non-example axes is elementwise, so one element per  *)
(* example stands for all of them.  Floating-point results are exact       *)
(* rationals <<numerator, denominator>> in lowest terms.  Python's None is *)
(* the empty sequence (a tensor always holds at least one example).        *)
(***************************************************************************)
EXTENDS Integers, Sequences, FiniteSets, TLC

\* ------------------------------------------------------------------ bounds
MaxSamples == 5      \* nt_samples ranges over 0..MaxSamples
MaxBatch   == 2      \* nt_samples_batch_size ranges over None and 0..MaxBatch
MaxBsz     == 2      \* examples per input tensor: 1..MaxBsz
MaxTensors == 2      \* tensors in an input tuple: 1..MaxTensors
MaxPool    == 2      \* reference examples in a baseline distribution
MaxFeat    == 2      \* features per example of a two-dimensional tensor

\* The states of the shared random number generator a draw can start from.
Seeds == {0, 1}

None == <<>>

\* ------------------------------------------------------- state of one call
VARIABLES
    self,                    \* the NoiseTunnel instance's fields
    args,                    \* the arguments attribute was called with
    kwargs,                  \* the caller's **kwargs mapping (mutable)
    pc,                      \* position in attribute
    error,                   \* the exception the call ended with, if any
    return_convergence_delta,
    nt_samples_batch_size,   \* the local, rebound to the effective size
    nt_samples_partition,
    inputs,                  \* the local, rebound to the tuple form
    is_inputs_tuple,
    kwargs_copy,
    sum_attributions,
    sum_attributions_sq,
    delta_partial_list,
    is_attrib_tuple,
    loop,                    \* iterations of the for loop completed
    attributions,
    delta,
    ret,                     \* the value attribute returned
    calls,                   \* every call of the wrapped attributor so far
    expansions               \* every expand_partial call so far

\* One call into gradient_shap.py (GradientShap, InputBaselineXGradient) or of
\* an attribute_future.
VARIABLES
    entry,                   \* the class and method called
    gs_self,                 \* the receiver's fields
    gs_args,                 \* the arguments of the call
    gs_pc,                   \* position in the called method
    gs_error,                \* the exception the call ended with, if any
    gs_ret,                  \* the value the call returned
    gs_baselines,            \* the local baselines, rebound to the formatted ones
    input_min_baseline_x_grad,
    rand_coefficient,
    input_baseline_scaled,
    grads,
    gradient_calls,          \* every call of gradient_func so far
    forward_calls            \* the number of forward_func evaluations so far

\* The caller of NoiseTunnel.attribute, for a second call on the same instance.
VARIABLES
    history                  \* how the caller's earlier call ended, if there was one

nt_vars == <<self, args, kwargs, pc, error, return_convergence_delta,
             nt_samples_batch_size, nt_samples_partition, inputs, is_inputs_tuple,
             kwargs_copy, sum_attributions, sum_attributions_sq,
             delta_partial_list, is_attrib_tuple, loop, attributions, delta, ret,
             calls, expansions>>

gs_vars == <<entry, gs_self, gs_args, gs_pc, gs_error, gs_ret, gs_baselines,
             input_min_baseline_x_grad, rand_coefficient, input_baseline_scaled,
             grads, gradient_calls, forward_calls>>

vars == <<self, args, kwargs, pc, error, return_convergence_delta,
          nt_samples_batch_size, nt_samples_partition, inputs, is_inputs_tuple,
          kwargs_copy, sum_attributions, sum_attributions_sq, delta_partial_list,
          is_attrib_tuple, loop, attributions, delta, ret, calls, expansions,
          entry, gs_self, gs_args, gs_pc, gs_error, gs_ret, gs_baselines,
          input_min_baseline_x_grad, rand_coefficient, input_baseline_scaled,
          grads, gradient_calls, forward_calls, history>>

\* ------------------------------------------------------- tensor arithmetic
RECURSIVE GCD(_, _)
GCD(a, b) == IF b = 0 THEN a ELSE GCD(b, a % b)

Abs(x) == IF x < 0 THEN -x ELSE x

\* The rational n/d (d > 0) in lowest terms.
Frac(n, d) ==
    LET g == GCD(Abs(n), d)
    IN  <<n \div g, d \div g>>

FracMul(p, q) == Frac(p[1] * q[1], p[2] * q[2])

FracSub(p, q) == Frac(p[1] * q[2] - q[1] * p[2], p[2] * q[2])

FracAdd(p, q) == Frac(p[1] * q[2] + q[1] * p[2], p[2] * q[2])

ToFrac(n) == <<n, 1>>

RECURSIVE SeqSum(_)
SeqSum(s) == IF s = <<>> THEN 0 ELSE Head(s) + SeqSum(Tail(s))

RECURSIVE Flatten(_)
Flatten(ss) == IF ss = <<>> THEN <<>> ELSE Head(ss) \o Flatten(Tail(ss))

Min(a, b) == IF a <= b THEN a ELSE b

\* Mutant: tensor.repeat(k), the whole batch k times over (replica-major).
repeat_tiled(tensor, k) ==
    [r \in 1..(Len(tensor) * k) |-> tensor[((r - 1) % Len(tensor)) + 1]]

\* tensor.repeat_interleave(k, dim=0): example e becomes k contiguous rows.
repeat_interleave(tensor, k) ==
    [r \in 1..(Len(tensor) * k) |-> tensor[((r - 1) \div k) + 1]]

\* Mutant: unit-variance noise whatever the stdev.
normal_unscaled(stdev, size, seed) ==
    [r \in 1..size |-> ((seed + r) % 3) - 1]

\* torch.normal(0, stdev_expanded): one zero-mean draw per element, as the
\* generator started from `seed` produces it; a stdev of 0 gives exactly 0.
normal(stdev, size, seed) ==
    [r \in 1..size |-> stdev * (((seed + r) % 3) - 1)]

\* ------------------------------------------------------------ NoiseTunnel
SUPPORTED_NOISE_TUNNEL_TYPES == <<"smoothgrad", "smoothgrad_sq", "vargrad">>

\* captum.attr._utils.common._validate_noise_tunnel_type: asserts membership.
_validate_noise_tunnel_type(nt_type, supported) ==
    \E i \in 1..Len(supported) : supported[i] = nt_type

\* The wrapped attribution methods a NoiseTunnel is constructed over.
AttributionMethods ==
    { [name |-> "InputBaselineXGradient", has_convergence_delta |-> TRUE,
       multiplies_by_inputs |-> TRUE, is_gradient |-> TRUE],
      [name |-> "Perturbation", has_convergence_delta |-> FALSE,
       multiplies_by_inputs |-> FALSE, is_gradient |-> FALSE] }

\* NoiseTunnel.__init__
NoiseTunnelInit(attribution_method) ==
    [attribution_method  |-> attribution_method,
     is_delta_supported  |-> attribution_method.has_convergence_delta,
     _multiply_by_inputs |-> attribution_method.multiplies_by_inputs,
     is_gradient_method  |-> attribution_method.is_gradient]


\* A raised exception: its type and the function that raised it.
NoError == [type |-> "none", where |-> "none"]
Raise(type, where) == [type |-> type, where |-> where]

\* captum._utils.common._format_tensor_into_tuples / _is_tuple / _format_output:
\* a value handed over as a single tensor or as a tuple is the record
\* [is_tuple, tensors]; formatting into tuples keeps the tensors.
_format_tensor_into_tuples(x) == x.tensors
_is_tuple(x) == x.is_tuple
_format_output(is_tuple, tensors) == [is_tuple |-> is_tuple, tensors |-> tensors]

\* add_noise_to_input: bsz * n_partition rows, row r a replica of
\* example (r - 1) \div n_partition, plus the drawn noise.
add_noise_to_input(input, stdev, n_partition, seed) ==
    LET bsz == Len(input)
        input_expanded_size == bsz * n_partition
        noise == normal(stdev, input_expanded_size, seed)
        expanded == repeat_interleave(input, n_partition)
    IN  [r \in 1..input_expanded_size |-> expanded[r] + noise[r]]

\* Mutant: stdevs is not checked; its first value is used for every tensor.
add_noise_to_inputs_unchecked(inputs_, stdevs, n_partition, seed) ==
    [err |-> NoError,
     val |-> [i \in 1..Len(inputs_) |->
                add_noise_to_input(inputs_[i], stdevs.vals[1], n_partition, seed + i)]]

\* add_noise_to_inputs: the checks on stdevs, then the noised tuple.  Only the
\* float branch binds stdevs_; the tuple branch reaches zip(inputs, stdevs_)
\* with stdevs_ unbound.
add_noise_to_inputs(inputs_, stdevs, n_partition, seed) ==
    IF stdevs.kind = "tuple"
    THEN IF Len(stdevs.vals) # Len(inputs_)
         THEN [err |-> Raise("AssertionError", "add_noise_to_inputs"), val |-> <<>>]
         ELSE [err |-> Raise("UnboundLocalError", "add_noise_to_inputs"), val |-> <<>>]
    ELSE IF stdevs.kind # "float"
         THEN [err |-> Raise("AssertionError", "add_noise_to_inputs"), val |-> <<>>]
         ELSE LET stdevs_ == [i \in 1..Len(inputs_) |-> stdevs.vals[1]]
              IN  [err |-> NoError,
                   val |-> [i \in 1..Len(inputs_) |->
                              add_noise_to_input(inputs_[i], stdevs_[i],
                                                 n_partition, seed + i)]]

\* Mutant: the sub-batch's sums replace the running sums instead of adding.
update_sum_attribution_and_sq_replace(sum_attribution, sum_attribution_sq, attribution, i, nt_samples_batch_size_inter) ==
    LET bsz == Len(attribution) \div nt_samples_batch_size_inter
        view == [e \in 1..bsz |-> [j \in 1..nt_samples_batch_size_inter |->
                    attribution[(e - 1) * nt_samples_batch_size_inter + j]]]
    IN  [sum |-> [sum_attribution EXCEPT ![i] = [e \in 1..bsz |-> SeqSum(view[e])]],
         sq  |-> [sum_attribution_sq EXCEPT ![i] =
                    [e \in 1..bsz |->
                        SeqSum([j \in 1..nt_samples_batch_size_inter |->
                                   view[e][j] * view[e][j]])]]]

\* update_sum_attribution_and_sq: view the attribution as
\* (bsz, nt_samples_batch_size_inter), sum and sum the squares over dim 1, and
\* set or add to entry i of both lists.  Returns the two lists.
update_sum_attribution_and_sq(sum_attribution, sum_attribution_sq, attribution, i, nt_samples_batch_size_inter) ==
    LET bsz == Len(attribution) \div nt_samples_batch_size_inter
        view == [e \in 1..bsz |-> [j \in 1..nt_samples_batch_size_inter |->
                    attribution[(e - 1) * nt_samples_batch_size_inter + j]]]
        current_attribution_sum == [e \in 1..bsz |-> SeqSum(view[e])]
        current_attribution_sq ==
            [e \in 1..bsz |->
                SeqSum([j \in 1..nt_samples_batch_size_inter |-> view[e][j] * view[e][j]])]
    IN  [sum |-> [sum_attribution EXCEPT ![i] =
                    IF sum_attribution[i] = None
                    THEN current_attribution_sum
                    ELSE [e \in 1..bsz |-> sum_attribution[i][e] + current_attribution_sum[e]]],
         sq  |-> [sum_attribution_sq EXCEPT ![i] =
                    IF sum_attribution_sq[i] = None
                    THEN current_attribution_sq
                    ELSE [e \in 1..bsz |-> sum_attribution_sq[i][e] + current_attribution_sq[e]]]]

\* update_partial_attribution_and_delta: fold every attribution tensor, and
\* append the sub-batch's delta when delta is supported and requested.
RECURSIVE FoldAttributions(_, _, _, _, _)
FoldAttributions(sums, sqs, attributions_partial, i, nt_samples_partial) ==
    IF i > Len(attributions_partial)
    THEN [sum |-> sums, sq |-> sqs]
    ELSE LET u == update_sum_attribution_and_sq(sums, sqs, attributions_partial[i],
                                                i, nt_samples_partial)
         IN  FoldAttributions(u.sum, u.sq, attributions_partial, i + 1, nt_samples_partial)

\* Mutant: the sub-batch's delta put in front of the list.
update_partial_attribution_and_delta_prepend(me, rcd, attributions_partial, delta_partial, sums, sqs, deltas, nt_samples_partial) ==
    LET f == FoldAttributions(sums, sqs, attributions_partial, 1, nt_samples_partial)
    IN  [sum |-> f.sum, sq |-> f.sq,
         deltas |-> IF me.is_delta_supported /\ rcd
                    THEN <<delta_partial>> \o deltas
                    ELSE deltas]

update_partial_attribution_and_delta(me, rcd, attributions_partial, delta_partial, sums, sqs, deltas, nt_samples_partial) ==
    LET f == FoldAttributions(sums, sqs, attributions_partial, 1, nt_samples_partial)
    IN  [sum |-> f.sum, sq |-> f.sq,
         deltas |-> IF me.is_delta_supported /\ rcd
                    THEN Append(deltas, delta_partial)
                    ELSE deltas]

\* The row of a baseline tensor an expanded row is measured against (a
\* one-row baseline broadcasts).
BaselineRow(baseline, r) == IF Len(baseline) = 1 THEN baseline[1] ELSE baseline[r]

\* attribution_method.attribute: a deterministic attributor of a linear model
\* with unit gradient: attribution = input - baseline per row (the gradient
\* itself for an InputBaselineXGradient that does not multiply by inputs),
\* delta = a per-row diagnostic; (attributions, delta) is returned when the method has a
\* convergence delta and return_convergence_delta is passed truthy.
attr_func(attribution_method, inputs_arg, kwargs_partition) ==
    LET xs == inputs_arg.tensors
        rows == Len(xs[1])
        local == /\ attribution_method.name = "InputBaselineXGradient"
                 /\ ~attribution_method.multiplies_by_inputs
        attrs == [t \in 1..Len(xs) |-> [r \in 1..rows |->
                    IF local THEN 1
                    ELSE IF "baselines" \in DOMAIN kwargs_partition
                    THEN xs[t][r] - BaselineRow(kwargs_partition["baselines"][t], r)
                    ELSE xs[t][r]]]
        with_delta == /\ attribution_method.has_convergence_delta
                      /\ "return_convergence_delta" \in DOMAIN kwargs_partition
                      /\ kwargs_partition["return_convergence_delta"]
    IN  [attributions |-> [is_tuple |-> inputs_arg.is_tuple, tensors |-> attrs],
         with_delta   |-> with_delta,
         delta        |-> IF with_delta
                          THEN [r \in 1..rows |-> SeqSum([t \in 1..Len(xs) |-> xs[t][r]])]
                          ELSE None]

\* compute_partial_attribution: one call of the wrapped attributor on the
\* noised inputs, unpacked into (attributions, is_attrib_tuple, delta).
compute_partial_attribution(me, rcd, is_inputs_tuple_, inputs_with_noise_partition, kwargs_partition) ==
    LET out == attr_func(me.attribution_method,
                         [is_tuple |-> is_inputs_tuple_,
                          tensors  |-> inputs_with_noise_partition],
                         kwargs_partition)
        delta_ == IF me.is_delta_supported /\ rcd THEN out.delta ELSE None
    IN  [attributions    |-> _format_tensor_into_tuples(out.attributions),
         is_attrib_tuple |-> _is_tuple(out.attributions),
         delta           |-> delta_]

\* np.random.choice(num_ref_samples, n): index r of the draw started from seed.
RandomIndex(seed, r, num_ref_samples) == ((seed + r) % num_ref_samples) + 1

\* captum._utils.common._expand_and_update_baselines: with
\* draw_baseline_from_distrib one pool example is drawn per expanded row;
\* otherwise a per-example baseline of more than one row is repeated like the
\* inputs; kwargs without baselines are left alone.
_expand_and_update_baselines(inputs_, n_samples, kwargs_, draw, seed) ==
    IF "baselines" \notin DOMAIN kwargs_
    THEN kwargs_
    ELSE LET baselines == kwargs_["baselines"]
             bsz == Len(inputs_[1])
             expanded ==
                 IF draw
                 THEN [t \in 1..Len(baselines) |-> [r \in 1..(n_samples * bsz) |->
                         baselines[t][RandomIndex(seed + t, r, Len(baselines[t]))]]]
                 ELSE [t \in 1..Len(baselines) |->
                         IF Len(baselines[t]) = Len(inputs_[t]) /\ Len(baselines[t]) > 1
                         THEN repeat_interleave(baselines[t], n_samples)
                         ELSE baselines[t]]
         IN  [kwargs_ EXCEPT !["baselines"] = expanded]

\* Mutant: the passthrough arguments are left as they are.
expand_partial_untouched(inputs_, n_partition, kwargs_partial, draw, seed) ==
    kwargs_partial

\* expand_partial: the passthrough arguments expanded for n_partition
\* replicas; returns the updated mapping.  The calls modelled pass baselines
\* and return_convergence_delta; the expanders of target,
\* additional_forward_args and feature_mask leave such a mapping as it is.
expand_partial(inputs_, n_partition, kwargs_partial, draw, seed) ==
    _expand_and_update_baselines(inputs_, n_partition, kwargs_partial, draw, seed)

\* Mutant: the variance without squaring the mean.
compute_smoothing_unsquared(nt_type, expected_attributions, expected_attributions_sq) ==
    IF nt_type = "smoothgrad" THEN expected_attributions
    ELSE IF nt_type = "smoothgrad_sq" THEN expected_attributions_sq
    ELSE [i \in 1..Len(expected_attributions) |->
            [e \in 1..Len(expected_attributions[i]) |->
                FracSub(expected_attributions_sq[i][e], expected_attributions[i][e])]]

\* compute_smoothing
compute_smoothing(nt_type, expected_attributions, expected_attributions_sq) ==
    IF nt_type = "smoothgrad" THEN expected_attributions
    ELSE IF nt_type = "smoothgrad_sq" THEN expected_attributions_sq
    ELSE [i \in 1..Len(expected_attributions) |->
            [e \in 1..Len(expected_attributions[i]) |->
                FracSub(expected_attributions_sq[i][e],
                        FracMul(expected_attributions[i][e], expected_attributions[i][e]))]]

\* Mutant: the sums divided by the sub-batch size instead of nt_samples.
ExpectedPerBatch(sums, nt_samples) ==
    [i \in 1..Len(sums) |->
        [e \in 1..Len(sums[i]) |-> Frac(sums[i][e] * 1, nt_samples_batch_size[1])]]

\* sum * 1 / nt_samples, per tensor and element
Expected(sums, nt_samples) ==
    [i \in 1..Len(sums) |-> [e \in 1..Len(sums[i]) |-> Frac(sums[i][e] * 1, nt_samples)]]

\* _apply_checks_and_return_attributions
_apply_checks_and_return_attributions(me, attributions_, is_attrib_tuple_, rcd, delta_) ==
    LET formatted == _format_output(is_attrib_tuple_, attributions_)
    IN  IF me.is_delta_supported /\ rcd
        THEN [has_delta |-> TRUE, attributions |-> formatted, delta |-> delta_]
        ELSE [has_delta |-> FALSE, attributions |-> formatted, delta |-> None]

\* ---------------------------------------------------------- call arguments
InputValue(t, e) == e + t - 1
BaselineValue(t, j) == j - 1

InputTensor(bsz, t) == [e \in 1..bsz |-> InputValue(t, e)]

\* A single tensor of 1..MaxBsz examples, or a tuple of MaxTensors tensors of
\* MaxBsz examples each.
InputBundles ==
    {[is_tuple |-> FALSE, tensors |-> <<InputTensor(b, 1)>>] : b \in 1..MaxBsz}
    \cup {[is_tuple |-> TRUE,
           tensors |-> [t \in 1..MaxTensors |-> InputTensor(MaxBsz, t)]]}

\* stdevs: a float (0.0 or 1.0), a tuple of 1 or of MaxTensors floats, or an
\* int.
StdevsChoices ==
    {[kind |-> "float", vals |-> <<v>>] : v \in {0, 1}}
    \cup {[kind |-> "tuple", vals |-> [i \in 1..n |-> i - 1]] : n \in {1, MaxTensors}}
    \cup {[kind |-> "int", vals |-> <<1>>]}

NoKwargs == [k \in {} |-> TRUE]

\* return_convergence_delta left out, or passed as True.
DeltaKwargs ==
    {NoKwargs, ("return_convergence_delta" :> TRUE)}

\* No baselines; one baseline per example; or, to draw from, a pool of
\* MaxPool reference examples.
BaselineKwargs(x, draw) ==
    IF draw
    THEN {("baselines" :> [t \in 1..Len(x.tensors) |->
                              [j \in 1..MaxPool |-> BaselineValue(t, j)]])}
    ELSE {NoKwargs,
          ("baselines" :> [t \in 1..Len(x.tensors) |->
                              [j \in 1..Len(x.tensors[1]) |-> BaselineValue(t, j)]])}

NtTypes == {"smoothgrad", "smoothgrad_sq", "vargrad", "bogus"}

\* No call into gradient_shap.py is in progress.
GsIdle ==
    /\ gs_self = None
    /\ gs_args = None
    /\ gs_pc = "IDLE"
    /\ gs_error = NoError
    /\ gs_ret = None
    /\ gs_baselines = None
    /\ input_min_baseline_x_grad = None
    /\ rand_coefficient = None
    /\ input_baseline_scaled = None
    /\ grads = None
    /\ gradient_calls = <<>>
    /\ forward_calls = 0

\* The locals of NoiseTunnel.attribute before its first statement.
NtLocalsInit ==
    /\ pc = "INIT"
    /\ error = NoError
    /\ return_convergence_delta = FALSE
    /\ nt_samples_batch_size = args.nt_samples_batch_size
    /\ nt_samples_partition = 0
    /\ inputs = None
    /\ is_inputs_tuple = FALSE
    /\ kwargs_copy = NoKwargs
    /\ sum_attributions = <<>>
    /\ sum_attributions_sq = <<>>
    /\ delta_partial_list = <<>>
    /\ is_attrib_tuple = FALSE
    /\ loop = 0
    /\ attributions = None
    /\ delta = None
    /\ ret = None
    /\ calls = <<>>
    /\ expansions = <<>>

Init ==
    /\ \E m \in AttributionMethods : self = NoiseTunnelInit(m)
    /\ \E x \in InputBundles, ty \in NtTypes, n \in 0..MaxSamples,
          s \in {None} \cup {<<b>> : b \in 0..MaxBatch},
          sd \in StdevsChoices, draw \in BOOLEAN :
         \E kd \in DeltaKwargs, kb \in BaselineKwargs(x, draw) :
            /\ args = [inputs |-> x, nt_type |-> ty, nt_samples |-> n,
                       nt_samples_batch_size |-> s, stdevs |-> sd,
                       draw_baseline_from_distrib |-> draw, kwargs |-> kd @@ kb]
            /\ kwargs = kd @@ kb
    /\ NtLocalsInit
    /\ entry = [class |-> "NoiseTunnel", method |-> "attribute"]
    /\ GsIdle
    /\ history = None

\* ------------------------------------------------------------------ steps
\* Mutant: nt_samples_batch_size taken as passed, without min(nt_samples, ...).
EffectiveBatchSizeUnclamped(nt_samples, batch_size) ==
    IF batch_size = None THEN nt_samples ELSE batch_size[1]

\* nt_samples if nt_samples_batch_size is None else min(nt_samples, ...)
EffectiveBatchSize(nt_samples, batch_size) ==
    IF batch_size = None THEN nt_samples ELSE Min(nt_samples, batch_size[1])

\* Mutant: the number of sub-batches rounded up instead of down.
WholeBatchesCeil(nt_samples, size) == (nt_samples + size - 1) \div size

\* nt_samples // nt_samples_batch_size
WholeBatches(nt_samples, size) == nt_samples \div size

\* return_convergence_delta, the effective sub-batch size, the number of whole
\* sub-batches and the tuple form of the inputs.  min(nt_samples, ...) = 0
\* makes the floor division raise.
ResolveBatchSize ==
    /\ pc = "INIT"
    /\ return_convergence_delta' =
          ("return_convergence_delta" \in DOMAIN kwargs
              /\ kwargs["return_convergence_delta"])
    /\ LET size == EffectiveBatchSize(args.nt_samples, nt_samples_batch_size)
       IN  /\ nt_samples_batch_size' = <<size>>
           /\ IF size = 0
              THEN /\ error' = Raise("ZeroDivisionError", "attribute")
                   /\ pc' = "ERROR"
                   /\ UNCHANGED <<nt_samples_partition, inputs, is_inputs_tuple>>
              ELSE /\ nt_samples_partition' = WholeBatches(args.nt_samples, size)
                   /\ is_inputs_tuple' = args.inputs.is_tuple
                   /\ inputs' = _format_tensor_into_tuples(args.inputs)
                   /\ pc' = "VALIDATE"
                   /\ UNCHANGED error
    /\ UNCHANGED <<self, args, kwargs, kwargs_copy, sum_attributions,
                   sum_attributions_sq, delta_partial_list, is_attrib_tuple, loop,
                   attributions, delta, ret, calls, expansions>>
    /\ UNCHANGED gs_vars
    /\ UNCHANGED history

\* Mutant: the smoothing mode is not validated.
ValidateSkipped ==
    /\ pc = "VALIDATE"
    /\ pc' = "EXPAND_CONFIG"
    /\ UNCHANGED <<self, args, kwargs, error, return_convergence_delta,
                   nt_samples_batch_size, nt_samples_partition, inputs,
                   is_inputs_tuple, kwargs_copy, sum_attributions,
                   sum_attributions_sq, delta_partial_list, is_attrib_tuple, loop,
                   attributions, delta, ret, calls, expansions>>
    /\ UNCHANGED gs_vars
    /\ UNCHANGED history

\* _validate_noise_tunnel_type(nt_type, SUPPORTED_NOISE_TUNNEL_TYPES)
Validate ==
    /\ pc = "VALIDATE"
    /\ IF _validate_noise_tunnel_type(args.nt_type, SUPPORTED_NOISE_TUNNEL_TYPES)
       THEN pc' = "EXPAND_CONFIG" /\ UNCHANGED error
       ELSE /\ pc' = "ERROR"
            /\ error' = Raise("AssertionError", "_validate_noise_tunnel_type")
    /\ UNCHANGED <<self, args, kwargs, return_convergence_delta,
                   nt_samples_batch_size, nt_samples_partition, inputs,
                   is_inputs_tuple, kwargs_copy, sum_attributions,
                   sum_attributions_sq, delta_partial_list, is_attrib_tuple, loop,
                   attributions, delta, ret, calls, expansions>>
    /\ UNCHANGED gs_vars
    /\ UNCHANGED history

\* What one expand_partial call was given and left behind: the mapping it
\* expanded ("kwargs_copy" or the caller's "kwargs"), the replication factor,
\* and the mapping before and after.
ExpansionRecord(mapping, factor, before, after) ==
    [mapping |-> mapping, factor |-> factor, before |-> before, after |-> after]

\* Mutant: kwargs_copy = kwargs without the copy, so that expanding kwargs_copy
\* expands the caller's mapping as well.
ExpandConfigAliased ==
    /\ pc = "EXPAND_CONFIG"
    /\ \E seed \in Seeds :
          LET expanded == expand_partial(inputs, nt_samples_batch_size[1], kwargs,
                                         args.draw_baseline_from_distrib, seed)
          IN  /\ kwargs_copy' = expanded
              /\ kwargs' = expanded
              /\ expansions' = Append(expansions,
                                      ExpansionRecord("kwargs_copy",
                                                      nt_samples_batch_size[1],
                                                      kwargs, expanded))
    /\ sum_attributions' = <<>>
    /\ sum_attributions_sq' = <<>>
    /\ delta_partial_list' = <<>>
    /\ pc' = "PARTIAL_BATCH"
    /\ UNCHANGED <<self, args, error, return_convergence_delta,
                   nt_samples_batch_size, nt_samples_partition, inputs,
                   is_inputs_tuple, is_attrib_tuple, loop, attributions, delta,
                   ret, calls>>
    /\ UNCHANGED gs_vars
    /\ UNCHANGED history

\* kwargs_copy = kwargs.copy(); expand_partial(nt_samples_batch_size,
\* kwargs_copy); the empty accumulators.
ExpandConfig ==
    /\ pc = "EXPAND_CONFIG"
    /\ \E seed \in Seeds :
          LET expanded == expand_partial(inputs, nt_samples_batch_size[1], kwargs,
                                         args.draw_baseline_from_distrib, seed)
          IN  /\ kwargs_copy' = expanded
              /\ expansions' = Append(expansions,
                                      ExpansionRecord("kwargs_copy",
                                                      nt_samples_batch_size[1],
                                                      kwargs, expanded))
    /\ sum_attributions' = <<>>
    /\ sum_attributions_sq' = <<>>
    /\ delta_partial_list' = <<>>
    /\ pc' = "PARTIAL_BATCH"
    /\ UNCHANGED <<self, args, kwargs, error, return_convergence_delta,
                   nt_samples_batch_size, nt_samples_partition, inputs,
                   is_inputs_tuple, is_attrib_tuple, loop, attributions, delta,
                   ret, calls>>
    /\ UNCHANGED gs_vars
    /\ UNCHANGED history

\* What one call of the wrapped attributor was given and gave back.
\* origin[r] is the example row r of the expanded batch replicates.
CallRecord(size, kw, noised, part) ==
    [size |-> size, kwargs |-> kw, inputs |-> noised,
     origin |-> repeat_interleave([e \in 1..Len(inputs[1]) |-> e], size),
     attributions |-> part.attributions, delta |-> part.delta]

\* The exception of a wrapped attributor (its forward function, its gradient
\* engine) that fails.
AttributorError == Raise("RuntimeError", "attribution_method.attribute")

\* Mutant: a failure of the wrapped attributor is swallowed and the loop goes
\* on with the next sub-batch.
PartialBatchSwallow ==
    /\ pc = "PARTIAL_BATCH"
    /\ loop < nt_samples_partition
    /\ \E seed \in Seeds, fails \in BOOLEAN :
         LET noised == add_noise_to_inputs(inputs, args.stdevs,
                                           nt_samples_batch_size[1], seed)
         IN  IF noised.err # NoError
             THEN /\ error' = noised.err
                  /\ pc' = "ERROR"
                  /\ UNCHANGED <<sum_attributions, sum_attributions_sq,
                                 delta_partial_list, is_attrib_tuple, loop, calls>>
             ELSE IF fails
             THEN /\ loop' = loop + 1
                  /\ UNCHANGED <<error, pc, sum_attributions, sum_attributions_sq,
                                 delta_partial_list, is_attrib_tuple, calls>>
             ELSE LET part == compute_partial_attribution(
                                  self, return_convergence_delta, is_inputs_tuple,
                                  noised.val, kwargs_copy)
                      sums0 == IF Len(sum_attributions) = 0
                               THEN [i \in 1..Len(part.attributions) |-> None]
                               ELSE sum_attributions
                      sqs0  == IF Len(sum_attributions) = 0
                               THEN [i \in 1..Len(part.attributions) |-> None]
                               ELSE sum_attributions_sq
                      upd == update_partial_attribution_and_delta(
                                 self, return_convergence_delta, part.attributions,
                                 part.delta, sums0, sqs0, delta_partial_list,
                                 nt_samples_batch_size[1])
                  IN  /\ sum_attributions' = upd.sum
                      /\ sum_attributions_sq' = upd.sq
                      /\ delta_partial_list' = upd.deltas
                      /\ is_attrib_tuple' = part.is_attrib_tuple
                      /\ loop' = loop + 1
                      /\ calls' = Append(calls, CallRecord(nt_samples_batch_size[1],
                                                           kwargs_copy, noised.val, part))
                      /\ UNCHANGED <<error, pc>>
    /\ UNCHANGED <<self, args, kwargs, return_convergence_delta,
                   nt_samples_batch_size, nt_samples_partition, inputs,
                   is_inputs_tuple, kwargs_copy, attributions, delta, ret,
                   expansions>>
    /\ UNCHANGED gs_vars
    /\ UNCHANGED history

\* One iteration of the loop over the whole sub-batches.  The call of the
\* wrapped attributor either returns or raises; nothing catches what it raises.
PartialBatch ==
    /\ pc = "PARTIAL_BATCH"
    /\ loop < nt_samples_partition
    /\ \E seed \in Seeds, fails \in BOOLEAN :
         LET noised == add_noise_to_inputs(inputs, args.stdevs,
                                           nt_samples_batch_size[1], seed)
         IN  IF noised.err # NoError
             THEN /\ error' = noised.err
                  /\ pc' = "ERROR"
                  /\ UNCHANGED <<sum_attributions, sum_attributions_sq,
                                 delta_partial_list, is_attrib_tuple, loop, calls>>
             ELSE IF fails
             THEN /\ error' = AttributorError
                  /\ pc' = "ERROR"
                  /\ UNCHANGED <<sum_attributions, sum_attributions_sq,
                                 delta_partial_list, is_attrib_tuple, loop, calls>>
             ELSE LET part == compute_partial_attribution(
                                  self, return_convergence_delta, is_inputs_tuple,
                                  noised.val, kwargs_copy)
                      sums0 == IF Len(sum_attributions) = 0
                               THEN [i \in 1..Len(part.attributions) |-> None]
                               ELSE sum_attributions
                      sqs0  == IF Len(sum_attributions) = 0
                               THEN [i \in 1..Len(part.attributions) |-> None]
                               ELSE sum_attributions_sq
                      upd == update_partial_attribution_and_delta(
                                 self, return_convergence_delta, part.attributions,
                                 part.delta, sums0, sqs0, delta_partial_list,
                                 nt_samples_batch_size[1])
                  IN  /\ sum_attributions' = upd.sum
                      /\ sum_attributions_sq' = upd.sq
                      /\ delta_partial_list' = upd.deltas
                      /\ is_attrib_tuple' = part.is_attrib_tuple
                      /\ loop' = loop + 1
                      /\ calls' = Append(calls, CallRecord(nt_samples_batch_size[1],
                                                           kwargs_copy, noised.val, part))
                      /\ UNCHANGED <<error, pc>>
    /\ UNCHANGED <<self, args, kwargs, return_convergence_delta,
                   nt_samples_batch_size, nt_samples_partition, inputs,
                   is_inputs_tuple, kwargs_copy, attributions, delta, ret,
                   expansions>>
    /\ UNCHANGED gs_vars
    /\ UNCHANGED history

\* Mutant: the remainder taken modulo the number of whole sub-batches.
nt_samples_remaining_mod ==
    IF nt_samples_partition = 0 THEN 0 ELSE args.nt_samples % nt_samples_partition

\* nt_samples - nt_samples_partition * nt_samples_batch_size
nt_samples_remaining ==
    args.nt_samples - nt_samples_partition * nt_samples_batch_size[1]

\* After the loop: the remainder sub-batch, if any, on the caller's kwargs
\* expanded in place (the expansion precedes the call of the wrapped
\* attributor, so it stays when that call raises).
RemainderBatch ==
    /\ pc = "PARTIAL_BATCH"
    /\ loop = nt_samples_partition
    /\ IF nt_samples_remaining > 0
       THEN \E seed \in Seeds, seed2 \in Seeds, fails \in BOOLEAN :
              LET noised == add_noise_to_inputs(inputs, args.stdevs,
                                                nt_samples_remaining, seed)
              IN  IF noised.err # NoError
                  THEN /\ error' = noised.err
                       /\ pc' = "ERROR"
                       /\ UNCHANGED <<kwargs, sum_attributions, sum_attributions_sq,
                                      delta_partial_list, is_attrib_tuple, calls,
                                      expansions>>
                  ELSE LET expanded == expand_partial(inputs, nt_samples_remaining,
                                           kwargs, args.draw_baseline_from_distrib, seed2)
                           part == compute_partial_attribution(
                                       self, return_convergence_delta, is_inputs_tuple,
                                       noised.val, expanded)
                           upd == update_partial_attribution_and_delta(
                                      self, return_convergence_delta, part.attributions,
                                      part.delta, sum_attributions, sum_attributions_sq,
                                      delta_partial_list, nt_samples_remaining)
                       IN  /\ kwargs' = expanded
                           /\ expansions' = Append(expansions,
                                                   ExpansionRecord("kwargs",
                                                                   nt_samples_remaining,
                                                                   kwargs, expanded))
                           /\ IF fails
                              THEN /\ error' = AttributorError
                                   /\ pc' = "ERROR"
                                   /\ UNCHANGED <<sum_attributions, sum_attributions_sq,
                                                  delta_partial_list, is_attrib_tuple,
                                                  calls>>
                              ELSE /\ sum_attributions' = upd.sum
                                   /\ sum_attributions_sq' = upd.sq
                                   /\ delta_partial_list' = upd.deltas
                                   /\ is_attrib_tuple' = part.is_attrib_tuple
                                   /\ calls' = Append(calls,
                                                      CallRecord(nt_samples_remaining,
                                                                 expanded, noised.val,
                                                                 part))
                                   /\ pc' = "COMBINE"
                                   /\ UNCHANGED error
       ELSE /\ pc' = "COMBINE"
            /\ UNCHANGED <<kwargs, error, sum_attributions, sum_attributions_sq,
                           delta_partial_list, is_attrib_tuple, calls, expansions>>
    /\ UNCHANGED <<self, args, return_convergence_delta, nt_samples_batch_size,
                   nt_samples_partition, inputs, is_inputs_tuple, kwargs_copy, loop,
                   attributions, delta, ret>>
    /\ UNCHANGED gs_vars
    /\ UNCHANGED history

\* The expected values, the smoothing, and the concatenated delta.
Combine ==
    /\ pc = "COMBINE"
    /\ LET expected_attributions == Expected(sum_attributions, args.nt_samples)
           expected_attributions_sq == Expected(sum_attributions_sq, args.nt_samples)
       IN  attributions' = compute_smoothing(args.nt_type, expected_attributions,
                                             expected_attributions_sq)
    /\ delta' = IF self.is_delta_supported /\ return_convergence_delta
                THEN Flatten(delta_partial_list)
                ELSE None
    /\ pc' = "RETURN"
    /\ UNCHANGED <<self, args, kwargs, error, return_convergence_delta,
                   nt_samples_batch_size, nt_samples_partition, inputs,
                   is_inputs_tuple, kwargs_copy, sum_attributions,
                   sum_attributions_sq, delta_partial_list, is_attrib_tuple, loop,
                   ret, calls, expansions>>
    /\ UNCHANGED gs_vars
    /\ UNCHANGED history

\* return self._apply_checks_and_return_attributions(...)
Return ==
    /\ pc = "RETURN"
    /\ ret' = _apply_checks_and_return_attributions(
                  self, attributions, is_attrib_tuple, return_convergence_delta, delta)
    /\ pc' = "DONE"
    /\ UNCHANGED <<self, args, kwargs, error, return_convergence_delta,
                   nt_samples_batch_size, nt_samples_partition, inputs,
                   is_inputs_tuple, kwargs_copy, sum_attributions,
                   sum_attributions_sq, delta_partial_list, is_attrib_tuple, loop,
                   attributions, delta, calls, expansions>>
    /\ UNCHANGED gs_vars
    /\ UNCHANGED history

Next ==
    \/ ResolveBatchSize
    \/ Validate
    \/ ExpandConfig
    \/ PartialBatch
    \/ RemainderBatch
    \/ Combine
    \/ Return

Spec == Init /\ [][Next]_vars

\* ------------------------------------------------- a second call of attribute
\* What the caller keeps of a call that has ended: what it returned or raised,
\* the sub-batches it ran, and the instance as the call left it.
Outcome ==
    [ret |-> ret, error |-> error, calls |-> calls, expansions |-> expansions,
     self |-> self]

\* Mutant: the mapping the earlier call expanded in place is passed again.
CallAgainKeepsKwargs ==
    /\ entry = [class |-> "NoiseTunnel", method |-> "attribute"]
    /\ history = None
    /\ pc \in {"DONE", "ERROR"}
    /\ history' = Outcome
    /\ pc' = "INIT"
    /\ error' = NoError
    /\ return_convergence_delta' = FALSE
    /\ nt_samples_batch_size' = args.nt_samples_batch_size
    /\ nt_samples_partition' = 0
    /\ inputs' = None
    /\ is_inputs_tuple' = FALSE
    /\ kwargs_copy' = NoKwargs
    /\ sum_attributions' = <<>>
    /\ sum_attributions_sq' = <<>>
    /\ delta_partial_list' = <<>>
    /\ is_attrib_tuple' = FALSE
    /\ loop' = 0
    /\ attributions' = None
    /\ delta' = None
    /\ ret' = None
    /\ calls' = <<>>
    /\ expansions' = <<>>
    /\ UNCHANGED <<self, args, kwargs>>
    /\ UNCHANGED gs_vars

\* The caller, once the call has returned or raised, calls attribute again on
\* the same instance with the same arguments: the parameters are bound anew
\* (**kwargs to a fresh mapping of the keyword arguments passed) and every
\* local is unbound; the instance is the one the first call left.
CallAgain ==
    /\ entry = [class |-> "NoiseTunnel", method |-> "attribute"]
    /\ history = None
    /\ pc \in {"DONE", "ERROR"}
    /\ history' = Outcome
    /\ kwargs' = args.kwargs
    /\ pc' = "INIT"
    /\ error' = NoError
    /\ return_convergence_delta' = FALSE
    /\ nt_samples_batch_size' = args.nt_samples_batch_size
    /\ nt_samples_partition' = 0
    /\ inputs' = None
    /\ is_inputs_tuple' = FALSE
    /\ kwargs_copy' = NoKwargs
    /\ sum_attributions' = <<>>
    /\ sum_attributions_sq' = <<>>
    /\ delta_partial_list' = <<>>
    /\ is_attrib_tuple' = FALSE
    /\ loop' = 0
    /\ attributions' = None
    /\ delta' = None
    /\ ret' = None
    /\ calls' = <<>>
    /\ expansions' = <<>>
    /\ UNCHANGED <<self, args>>
    /\ UNCHANGED gs_vars

\* The calls that are repeated: any wrapped method, inputs, stdevs and
\* baselines, smoothgrad or vargrad, return_convergence_delta passed as True,
\* nt_samples 1..MaxSamples in one sub-batch or in sub-batches of MaxBatch.
InitTwice ==
    /\ \E m \in AttributionMethods : self = NoiseTunnelInit(m)
    /\ \E x \in InputBundles, ty \in {"smoothgrad", "vargrad"}, n \in 1..MaxSamples,
          s \in {None, <<MaxBatch>>}, sd \in StdevsChoices, draw \in BOOLEAN :
         \E kd \in {("return_convergence_delta" :> TRUE)}, kb \in BaselineKwargs(x, draw) :
            /\ args = [inputs |-> x, nt_type |-> ty, nt_samples |-> n,
                       nt_samples_batch_size |-> s, stdevs |-> sd,
                       draw_baseline_from_distrib |-> draw, kwargs |-> kd @@ kb]
            /\ kwargs = kd @@ kb
    /\ NtLocalsInit
    /\ entry = [class |-> "NoiseTunnel", method |-> "attribute"]
    /\ GsIdle
    /\ history = None

NextTwice ==
    \/ ResolveBatchSize
    \/ Validate
    \/ ExpandConfig
    \/ PartialBatch
    \/ RemainderBatch
    \/ Combine
    \/ Return
    \/ CallAgain

SpecTwice == InitTwice /\ [][NextTwice]_vars

\* ===================================================================
\* gradient_shap.py: InputBaselineXGradient, GradientShap, attribute_future
\* ===================================================================
\* Here a tensor has shape (rows, features): a sequence of rows, each a
\* sequence of rationals.  A scalar baseline is the one-by-one tensor of its
\* value, marked as not a tensor.
Rows(x) == Len(x)
Cols(x) == Len(x[1])

Max(a, b) == IF a >= b THEN a ELSE b

\* torch's broadcasting of two shapes: along each axis the sizes are equal
\* or one of them is 1.
Broadcastable(x, y) ==
    /\ Rows(x) = Rows(y) \/ Rows(x) = 1 \/ Rows(y) = 1
    /\ Cols(x) = Cols(y) \/ Cols(x) = 1 \/ Cols(y) = 1

\* The element of x that position (r, c) of a broadcast result reads.
At(x, r, c) == x[IF Rows(x) = 1 THEN 1 ELSE r][IF Cols(x) = 1 THEN 1 ELSE c]

\* x * y, x + y and x - y elementwise, for broadcastable x and y.
Times(x, y) ==
    [r \in 1..Max(Rows(x), Rows(y)) |->
        [c \in 1..Max(Cols(x), Cols(y)) |-> FracMul(At(x, r, c), At(y, r, c))]]

Plus(x, y) ==
    [r \in 1..Max(Rows(x), Rows(y)) |->
        [c \in 1..Max(Cols(x), Cols(y)) |-> FracAdd(At(x, r, c), At(y, r, c))]]

Minus(x, y) ==
    [r \in 1..Max(Rows(x), Rows(y)) |->
        [c \in 1..Max(Cols(x), Cols(y)) |-> FracSub(At(x, r, c), At(y, r, c))]]

\* The forward functions of the models attributed: f(x) = sum of x ("sum"),
\* f(x) = sum of w * x with weights Weight(t, c) ("linear"), and
\* f(x) = sum of x * x / 2 ("square").
ForwardFuncs == {"linear", "square"}

Weight(t, c) == t + c

\* forward_func evaluated on a bundle: one output per row.
forward_func(f, points) ==
    [r \in 1..Rows(points[1]) |->
        LET terms == [k \in 1..(Len(points) * Cols(points[1])) |->
                        LET t == ((k - 1) \div Cols(points[1])) + 1
                            c == ((k - 1) % Cols(points[1])) + 1
                        IN  IF f = "sum" THEN points[t][r][c]
                            ELSE IF f = "linear"
                            THEN FracMul(ToFrac(Weight(t, c)), points[t][r][c])
                            ELSE FracMul(<<1, 2>>,
                                         FracMul(points[t][r][c], points[t][r][c]))]
            Total[k \in 0..Len(terms)] ==
                IF k = 0 THEN <<0, 1>> ELSE FracAdd(Total[k - 1], terms[k])
        IN  Total[Len(terms)]]

\* self.gradient_func(forward_func, points, ...): the gradient of the output
\* with respect to each element of points, shaped like points.
gradient_func(f, points) ==
    [t \in 1..Len(points) |-> [r \in 1..Rows(points[t]) |->
        [c \in 1..Cols(points[t]) |->
            IF f = "sum" THEN ToFrac(1)
            ELSE IF f = "linear" THEN ToFrac(Weight(t, c))
            ELSE points[t][r][c]]]]

\* InputBaselineXGradient.__init__ (with the methods has_convergence_delta
\* and multiplies_by_inputs and the base class as fields).
InputBaselineXGradientInit(f, multiply_by_inputs) ==
    [name |-> "InputBaselineXGradient", forward_func |-> f,
     _multiply_by_inputs |-> multiply_by_inputs,
     multiplies_by_inputs |-> multiply_by_inputs,
     has_convergence_delta |-> TRUE, is_gradient |-> TRUE]

\* GradientShap.__init__
GradientShapInit(f, multiply_by_inputs) ==
    [name |-> "GradientShap", forward_func |-> f,
     _multiply_by_inputs |-> multiply_by_inputs,
     multiplies_by_inputs |-> multiply_by_inputs,
     has_convergence_delta |-> TRUE, is_gradient |-> TRUE]

\* Mutant: the coefficient weighs the baseline instead of the input.
_scale_input_swapped(input, baseline, rand_coefficient_) ==
    LET bsz == Rows(input)
        coefficient == [r \in 1..bsz |-> <<rand_coefficient_[r]>>]
        complement == [r \in 1..bsz |-> <<FracSub(<<1, 1>>, rand_coefficient_[r])>>]
        weighted == Times(coefficient, baseline)
    IN  IF ~Broadcastable(coefficient, baseline) \/ ~Broadcastable(weighted, input)
        THEN [err |-> Raise("RuntimeError", "_scale_input"), val |-> None]
        ELSE [err |-> NoError,
              val |-> Plus(weighted,
                                  Times(complement, input))]

\* Mutant: a baseline that is not shaped like its input is rejected.
_scale_input_strict(input, baseline, rand_coefficient_) ==
    LET bsz == Rows(input)
        coefficient == [r \in 1..bsz |-> <<rand_coefficient_[r]>>]
        complement == [r \in 1..bsz |-> <<FracSub(<<1, 1>>, rand_coefficient_[r])>>]
        weighted == Times(coefficient, input)
    IN  IF Rows(baseline) # Rows(input) \/ Cols(baseline) # Cols(input)
        THEN [err |-> Raise("RuntimeError", "_scale_input"), val |-> None]
        ELSE [err |-> NoError,
              val |-> Plus(weighted,
                                  Times(complement, baseline))]

\* _scale_input: rand_coefficient viewed as (bsz, 1), then
\* rand_coefficient * input + (1.0 - rand_coefficient) * baseline; the sum
\* raises when its operands cannot be broadcast.
_scale_input(input, baseline, rand_coefficient_) ==
    LET bsz == Rows(input)
        coefficient == [r \in 1..bsz |-> <<rand_coefficient_[r]>>]
        complement == [r \in 1..bsz |-> <<FracSub(<<1, 1>>, rand_coefficient_[r])>>]
        weighted == Times(coefficient, input)
    IN  IF ~Broadcastable(complement, baseline)
           \/ ~Broadcastable(weighted, Times(complement, baseline))
        THEN [err |-> Raise("RuntimeError", "_scale_input"), val |-> None]
        ELSE [err |-> NoError,
              val |-> Plus(weighted,
                                  Times(complement, baseline))]

\* Mutant: the gradients are multiplied by (input - baseline) whatever
\* multiplies_by_inputs says.
ComputeAttributionsAlwaysMultiplied(me, inputs_, baselines_, grads_) ==
    [t \in 1..Len(inputs_) |->
        Times(Minus(inputs_[t], baselines_[t]), grads_[t])]

\* The attributions of InputBaselineXGradient.attribute: (input - baseline) *
\* grad per tensor if self.multiplies_by_inputs, else the gradients.
ComputeAttributions(me, inputs_, baselines_, grads_) ==
    IF me.multiplies_by_inputs
    THEN [t \in 1..Len(inputs_) |->
            Times(Minus(inputs_[t], baselines_[t]),
                        grads_[t])]
    ELSE grads_

\* captum.attr._utils.common._format_input_baseline: the inputs and the
\* baselines as tuples.
_format_input_baseline(inputs_, baselines_) ==
    [inputs |-> _format_tensor_into_tuples(inputs_), baselines |-> baselines_.tensors]

\* captum.attr._utils.common._compute_conv_delta_and_format_attrs: the
\* attributions in the caller's single-tensor or tuple form and, if asked
\* for, one delta per example: the sum of its attributions minus
\* (forward(inputs) - forward(baselines)).
_compute_conv_delta_and_format_attrs(me, rcd, attributions_, baselines_, inputs_, is_inputs_tuple_) ==
    LET formatted == _format_output(is_inputs_tuple_, attributions_)
        ones == [t \in 1..Len(attributions_) |->
                    [r \in 1..Rows(attributions_[t]) |->
                        [c \in 1..Cols(attributions_[t]) |-> ToFrac(1)]]]
        end_out == forward_func(me.forward_func,
                        [t \in 1..Len(inputs_) |->
                            Times(inputs_[t], ones[t])])
        start_out == forward_func(me.forward_func,
                        [t \in 1..Len(baselines_) |->
                            Times(baselines_[t], ones[t])])
        attr_sum == forward_func("sum", attributions_)
    IN  IF rcd
        THEN [has_delta |-> TRUE, attributions |-> formatted,
              delta |-> [r \in 1..Len(attr_sum) |->
                            FracSub(attr_sum[r], FracSub(end_out[r], start_out[r]))]]
        ELSE [has_delta |-> FALSE, attributions |-> formatted, delta |-> None]

\* ---------------------------------------------------------- call arguments
\* np.random.uniform(0.0, 1.0): the coefficients a draw can give, the ends of
\* the interval among them.
Coefficients == {<<0, 1>>, <<1, 2>>, <<1, 1>>}

InputTensor2(t, rows, cols) ==
    [r \in 1..rows |-> [c \in 1..cols |-> ToFrac(r + c + t)]]

BaselineTensor2(t, rows, cols) ==
    [r \in 1..rows |-> [c \in 1..cols |-> ToFrac(r - c)]]

\* The inputs of InputBaselineXGradient.attribute: a single tensor of
\* 1..MaxBsz examples of 1..MaxFeat features, or a tuple of MaxTensors
\* tensors of 2 examples of 1..MaxFeat features.
IBGInputs ==
    {[is_tuple |-> FALSE, tensors |-> <<InputTensor2(1, b, f)>>]
        : b \in 1..MaxBsz, f \in 1..MaxFeat}
    \cup {[is_tuple |-> TRUE,
           tensors |-> [t \in 1..MaxTensors |-> InputTensor2(t, 2, f)]]
            : f \in 1..MaxFeat}

\* Its baselines: per input tensor a tensor of 1..MaxBsz + 1 rows of
\* 1..MaxFeat + 1 features (matching the input or not), or a scalar.
IBGBaselines(x) ==
    {[is_tensor |-> TRUE,
      tensors |-> [t \in 1..Len(x.tensors) |-> BaselineTensor2(t, r, g)]]
        : r \in 1..(MaxBsz + 1), g \in 1..(MaxFeat + 1)}
    \cup {[is_tensor |-> FALSE,
           tensors |-> [t \in 1..Len(x.tensors) |-> <<<<ToFrac(1)>>>>]]}

\* The baselines of GradientShap.attribute: a pool of MaxPool reference
\* examples per input tensor or a scalar, given directly or by a callable.
GSBaselines(x) ==
    LET pool == [is_tensor |-> TRUE,
                 tensors |-> [t \in 1..Len(x.tensors) |->
                                [j \in 1..MaxPool |-> BaselineValue(t, j)]]]
        scalar == [is_tensor |-> FALSE,
                   tensors |-> [t \in 1..Len(x.tensors) |-> <<0>>]]
    IN  {[callable |-> cb, value |-> v] : cb \in BOOLEAN, v \in {pool, scalar}}

\* captum.attr._utils.common._format_callable_baseline: a callable is
\* invoked (on the inputs if it takes an argument), and the result formatted
\* into a tuple.
_format_callable_baseline(baselines_, inputs_) == baselines_.value

\* No call of NoiseTunnel.attribute is in progress.
NtIdle ==
    /\ args = None
    /\ kwargs = NoKwargs
    /\ pc = "IDLE"
    /\ error = NoError
    /\ return_convergence_delta = FALSE
    /\ nt_samples_batch_size = None
    /\ nt_samples_partition = 0
    /\ inputs = None
    /\ is_inputs_tuple = FALSE
    /\ kwargs_copy = NoKwargs
    /\ sum_attributions = <<>>
    /\ sum_attributions_sq = <<>>
    /\ delta_partial_list = <<>>
    /\ is_attrib_tuple = FALSE
    /\ loop = 0
    /\ attributions = None
    /\ delta = None
    /\ ret = None
    /\ calls = <<>>
    /\ expansions = <<>>

\* The locals of a call into gradient_shap.py before its first statement.
GsLocalsInit ==
    /\ gs_error = NoError
    /\ gs_ret = None
    /\ gs_baselines = None
    /\ input_min_baseline_x_grad = None
    /\ rand_coefficient = None
    /\ input_baseline_scaled = None
    /\ grads = None
    /\ gradient_calls = <<>>
    /\ forward_calls = 0

\* GradientShap.attribute(inputs, baselines, n_samples, stdevs,
\* return_convergence_delta) on a GradientShap over the model f(x) = sum(x).
InitGradientShapAttribute ==
    /\ entry = [class |-> "GradientShap", method |-> "attribute"]
    /\ \E m \in BOOLEAN : gs_self = GradientShapInit("sum", m)
    /\ \E x \in InputBundles, n \in 1..MaxSamples, rcd \in BOOLEAN,
          sd \in {c \in StdevsChoices : c.kind # "tuple"} :
         \E b \in GSBaselines(x) :
            gs_args = [inputs |-> x, baselines |-> b, n_samples |-> n,
                       stdevs |-> sd, return_convergence_delta |-> rcd]
    /\ gs_pc = "GS_INIT"
    /\ self = None

\* InputBaselineXGradient.attribute(inputs, baselines,
\* return_convergence_delta).
InitInputBaselineXGradientAttribute ==
    /\ entry = [class |-> "InputBaselineXGradient", method |-> "attribute"]
    /\ \E f \in ForwardFuncs, m \in BOOLEAN :
          gs_self = InputBaselineXGradientInit(f, m)
    /\ \E x \in IBGInputs, rcd \in BOOLEAN :
         \E b \in IBGBaselines(x) :
            gs_args = [inputs |-> x, baselines |-> b,
                       return_convergence_delta |-> rcd]
    /\ gs_pc = "IBG_INIT"
    /\ self = None

\* attribute_future() on a NoiseTunnel (self), a GradientShap or an
\* InputBaselineXGradient (gs_self).
InitAttributeFuture ==
    /\ \E c \in {"NoiseTunnel", "GradientShap", "InputBaselineXGradient"} :
          entry = [class |-> c, method |-> "attribute_future"]
    /\ \E a \in AttributionMethods, f \in ForwardFuncs, m \in BOOLEAN :
          /\ self = IF entry.class = "NoiseTunnel" THEN NoiseTunnelInit(a) ELSE None
          /\ gs_self = IF entry.class = "GradientShap" THEN GradientShapInit(f, m)
                       ELSE IF entry.class = "InputBaselineXGradient"
                       THEN InputBaselineXGradientInit(f, m)
                       ELSE None
    /\ gs_args = None
    /\ gs_pc = "FUTURE"

InitGS ==
    /\ \/ InitGradientShapAttribute
       \/ InitInputBaselineXGradientAttribute
       \/ InitAttributeFuture
    /\ GsLocalsInit
    /\ NtIdle
    /\ history = None

\* ------------------------------------------------------------------ steps
\* InputBaselineXGradient.attribute up to the scaled inputs: the tuple forms,
\* one coefficient per example of inputs[0], and _scale_input per pair.
ScaleInputs ==
    /\ gs_pc = "IBG_INIT"
    /\ LET formatted == _format_input_baseline(gs_args.inputs, gs_args.baselines)
       IN  /\ gs_baselines' = formatted.baselines
           /\ \E coefficients \in [1..Rows(formatted.inputs[1]) -> Coefficients] :
                LET scaled == [t \in 1..Len(formatted.inputs) |->
                                 _scale_input(formatted.inputs[t],
                                              formatted.baselines[t], coefficients)]
                    failed == {t \in 1..Len(scaled) : scaled[t].err # NoError}
                IN  /\ rand_coefficient' = coefficients
                    /\ IF failed # {}
                       THEN /\ gs_error' = scaled[CHOOSE t \in failed :
                                                     \A u \in failed : t <= u].err
                            /\ gs_pc' = "ERROR"
                            /\ UNCHANGED input_baseline_scaled
                       ELSE /\ input_baseline_scaled' =
                                  [t \in 1..Len(scaled) |-> scaled[t].val]
                            /\ gs_pc' = "IBG_GRADIENT"
                            /\ UNCHANGED gs_error
    /\ UNCHANGED <<entry, gs_self, gs_args, gs_ret, input_min_baseline_x_grad,
                   grads, gradient_calls, forward_calls>>
    /\ UNCHANGED nt_vars
    /\ UNCHANGED history

\* grads = self.gradient_func(self.forward_func, input_baseline_scaled, ...)
ComputeGradients ==
    /\ gs_pc = "IBG_GRADIENT"
    /\ grads' = gradient_func(gs_self.forward_func, input_baseline_scaled)
    /\ gradient_calls' = Append(gradient_calls, input_baseline_scaled)
    /\ gs_pc' = "IBG_ATTRIBUTIONS"
    /\ UNCHANGED <<entry, gs_self, gs_args, gs_error, gs_ret, gs_baselines,
                   input_min_baseline_x_grad, rand_coefficient,
                   input_baseline_scaled, forward_calls>>
    /\ UNCHANGED nt_vars
    /\ UNCHANGED history

\* The attributions and the return through
\* _compute_conv_delta_and_format_attrs.
ReturnAttributions ==
    /\ gs_pc = "IBG_ATTRIBUTIONS"
    /\ LET inputs_ == _format_tensor_into_tuples(gs_args.inputs)
           attributions_ == ComputeAttributions(gs_self, inputs_, gs_baselines, grads)
       IN  gs_ret' = _compute_conv_delta_and_format_attrs(
                         gs_self, gs_args.return_convergence_delta, attributions_,
                         gs_baselines, inputs_, _is_tuple(gs_args.inputs))
    /\ forward_calls' = forward_calls
                          + (IF gs_args.return_convergence_delta THEN 2 ELSE 0)
    /\ gs_pc' = "DONE"
    /\ UNCHANGED <<entry, gs_self, gs_args, gs_error, gs_baselines,
                   input_min_baseline_x_grad, rand_coefficient,
                   input_baseline_scaled, grads, gradient_calls>>
    /\ UNCHANGED nt_vars
    /\ UNCHANGED history

\* Mutant: the baselines are not checked to be tensors.
FormatBaselinesUnchecked ==
    /\ gs_pc = "GS_INIT"
    /\ gs_baselines' = _format_callable_baseline(gs_args.baselines, gs_args.inputs)
    /\ gs_pc' = "GS_CONSTRUCT"
    /\ UNCHANGED <<entry, gs_self, gs_args, gs_error, gs_ret,
                   input_min_baseline_x_grad, rand_coefficient,
                   input_baseline_scaled, grads, gradient_calls, forward_calls>>
    /\ UNCHANGED nt_vars
    /\ UNCHANGED history

\* GradientShap.attribute: baselines = _format_callable_baseline(...) and
\* assert isinstance(baselines[0], torch.Tensor).
FormatBaselines ==
    /\ gs_pc = "GS_INIT"
    /\ LET formatted == _format_callable_baseline(gs_args.baselines, gs_args.inputs)
       IN  /\ gs_baselines' = formatted
           /\ IF formatted.is_tensor
              THEN gs_pc' = "GS_CONSTRUCT" /\ UNCHANGED gs_error
              ELSE /\ gs_pc' = "ERROR"
                   /\ gs_error' = Raise("AssertionError", "GradientShap.attribute")
    /\ UNCHANGED <<entry, gs_self, gs_args, gs_ret, input_min_baseline_x_grad,
                   rand_coefficient, input_baseline_scaled, grads, gradient_calls,
                   forward_calls>>
    /\ UNCHANGED nt_vars
    /\ UNCHANGED history

\* Mutant: the aggregator is asked for the mean of the squares.
NoiseTunnelArgumentsSquared(a, baselines_) ==
    [inputs |-> a.inputs, nt_type |-> "smoothgrad_sq", nt_samples |-> a.n_samples,
     nt_samples_batch_size |-> None, stdevs |-> a.stdevs,
     draw_baseline_from_distrib |-> TRUE,
     kwargs |-> ("baselines" :> baselines_.tensors)
                @@ ("return_convergence_delta" :> a.return_convergence_delta)]

\* The arguments of nt.attribute in GradientShap.attribute (target and
\* additional_forward_args, passed on as they came, left out).
NoiseTunnelArguments(a, baselines_) ==
    [inputs |-> a.inputs, nt_type |-> "smoothgrad", nt_samples |-> a.n_samples,
     nt_samples_batch_size |-> None, stdevs |-> a.stdevs,
     draw_baseline_from_distrib |-> TRUE,
     kwargs |-> ("baselines" :> baselines_.tensors)
                @@ ("return_convergence_delta" :> a.return_convergence_delta)]

\* input_min_baseline_x_grad = InputBaselineXGradient(...); nt =
\* NoiseTunnel(input_min_baseline_x_grad); nt.attribute(...) is entered.
Delegate ==
    /\ gs_pc = "GS_CONSTRUCT"
    /\ LET ibg == InputBaselineXGradientInit(gs_self.forward_func,
                                             gs_self.multiplies_by_inputs)
           a == NoiseTunnelArguments(gs_args, gs_baselines)
       IN  /\ input_min_baseline_x_grad' = ibg
           /\ self' = NoiseTunnelInit(ibg)
           /\ args' = a
           /\ kwargs' = a.kwargs
           /\ nt_samples_batch_size' = a.nt_samples_batch_size
    /\ pc' = "INIT"
    /\ gs_pc' = "GS_DELEGATED"
    /\ UNCHANGED <<error, return_convergence_delta, nt_samples_partition, inputs,
                   is_inputs_tuple, kwargs_copy, sum_attributions,
                   sum_attributions_sq, delta_partial_list, is_attrib_tuple, loop,
                   attributions, delta, ret, calls, expansions>>
    /\ UNCHANGED <<entry, gs_self, gs_args, gs_error, gs_ret, gs_baselines,
                   rand_coefficient, input_baseline_scaled, grads, gradient_calls,
                   forward_calls>>
    /\ UNCHANGED history

\* return attributions: what nt.attribute returned, or the exception it
\* ended with.
ReturnDelegated ==
    /\ gs_pc = "GS_DELEGATED"
    /\ pc \in {"DONE", "ERROR"}
    /\ IF pc = "DONE"
       THEN gs_ret' = ret /\ gs_pc' = "DONE" /\ UNCHANGED gs_error
       ELSE gs_error' = error /\ gs_pc' = "ERROR" /\ UNCHANGED gs_ret
    /\ UNCHANGED <<entry, gs_self, gs_args, gs_baselines,
                   input_min_baseline_x_grad, rand_coefficient,
                   input_baseline_scaled, grads, gradient_calls, forward_calls>>
    /\ UNCHANGED nt_vars
    /\ UNCHANGED history

NotImplemented(class) == Raise("NotImplementedError", class)

\* Mutant: attribute_future returns a callable instead of raising.
AttributeFutureReturns(class) ==
    /\ gs_pc = "FUTURE"
    /\ entry = [class |-> class, method |-> "attribute_future"]
    /\ gs_ret' = [has_delta |-> FALSE, attributions |-> "callable", delta |-> None]
    /\ gs_pc' = "DONE"
    /\ UNCHANGED <<entry, gs_self, gs_args, gs_error, gs_baselines,
                   input_min_baseline_x_grad, rand_coefficient,
                   input_baseline_scaled, grads, gradient_calls, forward_calls>>
    /\ UNCHANGED nt_vars
    /\ UNCHANGED history

\* attribute_future of the given class: raise NotImplementedError(...)
AttributeFuture(class) ==
    /\ gs_pc = "FUTURE"
    /\ entry = [class |-> class, method |-> "attribute_future"]
    /\ gs_error' = NotImplemented(class)
    /\ gs_pc' = "ERROR"
    /\ UNCHANGED <<entry, gs_self, gs_args, gs_ret, gs_baselines,
                   input_min_baseline_x_grad, rand_coefficient,
                   input_baseline_scaled, grads, gradient_calls, forward_calls>>
    /\ UNCHANGED nt_vars
    /\ UNCHANGED history

NoiseTunnelAttributeFuture == AttributeFuture("NoiseTunnel")

GradientShapAttributeFuture == AttributeFuture("GradientShap")

InputBaselineXGradientAttributeFuture == AttributeFuture("InputBaselineXGradient")

NextGS ==
    \/ ScaleInputs
    \/ ComputeGradients
    \/ ReturnAttributions
    \/ FormatBaselines
    \/ Delegate
    \/ ResolveBatchSize
    \/ Validate
    \/ ExpandConfig
    \/ PartialBatch
    \/ RemainderBatch
    \/ Combine
    \/ Return
    \/ ReturnDelegated
    \/ NoiseTunnelAttributeFuture
    \/ GradientShapAttributeFuture
    \/ InputBaselineXGradientAttributeFuture

SpecGS == InitGS /\ [][NextGS]_vars

\* ===================================================================
\* Properties
\* ===================================================================
N == args.nt_samples
S == args.nt_samples_batch_size
Bsz == Len(args.inputs.tensors[1])
NumTensors == Len(args.inputs.tensors)

Done == pc = "DONE"
Failed == pc = "ERROR"

\* The sizes of the sub-batches handed to the wrapped attributor, in order.
CallSizes == [i \in 1..Len(calls) |-> calls[i].size]

\* nt_samples >= 1 and nt_samples_batch_size None or >= 1.
SamplesInRange == N >= 1 /\ (S = None \/ S[1] >= 1)

IsPrefix(p, q) == Len(p) <= Len(q) /\ \A i \in 1..Len(p) : p[i] = q[i]

\* C1: when a call with nt_samples N >= 1 and nt_samples_batch_size S >= 1 or
\* None completes, the sizes of all sub-batches handed to the wrapped
\* attributor sum to exactly N, and never exceed N on the way.
C1_SubBatchSizesSumToN ==
    SamplesInRange =>
        /\ SeqSum(CallSizes) <= N
        /\ pc \in {"COMBINE", "RETURN", "DONE"} => SeqSum(CallSizes) = N

\* A completed call whose N is not divisible by the effective sub-batch size.
C1_Witness ==
    /\ Done
    /\ N = 5 /\ S = <<2>>
    /\ Len(calls) = 3
    /\ SeqSum(CallSizes) = 5

\* The size sequence the contract prescribes, from the arguments alone:
\* whole = N // S' sub-batches of S' = min(N, S), then the remainder if > 0.
PrescribedSizes ==
    LET S1 == IF S = None THEN N ELSE Min(N, S[1])
        whole == N \div S1
        remainder == N - whole * S1
    IN  [i \in 1..whole |-> S1] \o (IF remainder > 0 THEN <<remainder>> ELSE <<>>)

\* C2: the sub-batches are processed in the prescribed order with the
\* prescribed sizes: at every moment the sizes so far are a prefix of
\* [S', ..., S', remainder], the whole sequence once the call completes, and a
\* remainder sub-batch is strictly smaller than S'.
C2_SubBatchOrderAndSizes ==
    (SamplesInRange /\ pc # "INIT") =>
        /\ IsPrefix(CallSizes, PrescribedSizes)
        /\ pc \in {"COMBINE", "RETURN", "DONE"} => CallSizes = PrescribedSizes
        /\ \A i \in 1..Len(calls) :
              (i > N \div nt_samples_batch_size[1]) =>
                  /\ i = Len(PrescribedSizes)
                  /\ calls[i].size < nt_samples_batch_size[1]

\* Two whole sub-batches followed by a smaller remainder.
C2_Witness ==
    /\ Done
    /\ N = 5 /\ S = <<2>>
    /\ CallSizes = <<2, 2, 1>>

InvalidType ==
    \A i \in 1..Len(SUPPORTED_NOISE_TUNNEL_TYPES) :
        SUPPORTED_NOISE_TUNNEL_TYPES[i] # args.nt_type

ValidatorError == Raise("AssertionError", "_validate_noise_tunnel_type")

\* C3 as stated: validation comes first, so with an invalid nt_type the call
\* can only end with the validator's error, whatever the other arguments
\* are, and the wrapped attributor is never invoked.
C3_ValidationFirst ==
    InvalidType =>
        /\ Len(calls) = 0
        /\ pc \notin {"INIT", "VALIDATE"} => (Failed /\ error = ValidatorError)

\* C3 amended: with an invalid nt_type the wrapped attributor is never invoked
\* and the call never returns; it fails with the validator's error whenever
\* the effective sub-batch size min(nt_samples, nt_samples_batch_size) is not
\* 0, and with the division error of the sub-batch resolution, which runs
\* before the validation, when it is 0.
C3_InvalidTypeFails ==
    InvalidType =>
        /\ Len(calls) = 0
        /\ pc \in {"INIT", "VALIDATE", "ERROR"}
        /\ Failed =>
              IF EffectiveBatchSize(N, S) # 0
              THEN error = ValidatorError
              ELSE error = Raise("ZeroDivisionError", "attribute")

\* The validator's error on an invalid mode, with tuple stdevs and kwargs set.
C3_Witness ==
    /\ Failed
    /\ args.nt_type = "bogus"
    /\ error = ValidatorError
    /\ N = 5 /\ S = <<2>>
    /\ args.stdevs.kind = "tuple"
    /\ "baselines" \in DOMAIN args.kwargs
    /\ Len(calls) = 0

\* The attributions of the rows r, r+1, ... of one call that replicate
\* example e, in row order.
RECURSIVE RowValues(_, _, _, _)
RowValues(origin, tensor, e, r) ==
    IF r > Len(origin) THEN <<>>
    ELSE (IF origin[r] = e THEN <<tensor[r]>> ELSE <<>>)
         \o RowValues(origin, tensor, e, r + 1)

\* The per-trial attributions of example e in tensor t, over all calls of the
\* wrapped attributor so far, in trial order.
Trials(t, e) ==
    Flatten([i \in 1..Len(calls) |->
                RowValues(calls[i].origin, calls[i].attributions[t], e, 1)])

Squares(seq) == [i \in 1..Len(seq) |-> seq[i] * seq[i]]

\* C4: for smoothgrad the returned value of every example and tensor is the
\* sum of that example's attributions over all N trials divided by N, for
\* smoothgrad_sq the sum of their squares divided by N; the divisor is
\* nt_samples.
C4_MeanOverAllTrials ==
    Done =>
        \A t \in 1..NumTensors : \A e \in 1..Bsz :
            LET trials == Trials(t, e)
            IN  /\ Len(ret.attributions.tensors) = NumTensors
                /\ Len(ret.attributions.tensors[t]) = Bsz
                /\ Len(trials) = N
                /\ args.nt_type = "smoothgrad" =>
                      ret.attributions.tensors[t][e] = Frac(SeqSum(trials), N)
                /\ args.nt_type = "smoothgrad_sq" =>
                      ret.attributions.tensors[t][e] = Frac(SeqSum(Squares(trials)), N)

\* A smoothgrad mean over whole sub-batches and a remainder, with noise, that
\* is not an integer.
C4_Witness ==
    /\ Done
    /\ args.nt_type = "smoothgrad"
    /\ N = 5 /\ S = <<2>> /\ Bsz = 2
    /\ args.stdevs = [kind |-> "float", vals |-> <<1>>]
    /\ \E e \in 1..Bsz : ret.attributions.tensors[1][e][2] = 5

\* What each smoothing mode returns on the trials this call accumulated.
ModeResult(mode) ==
    compute_smoothing(mode, Expected(sum_attributions, N),
                      Expected(sum_attributions_sq, N))

\* C5: on the same per-trial attributions the three modes satisfy, per
\* element, vargrad = smoothgrad_sq - smoothgrad^2, and the value a vargrad
\* call returns is the biased variance of the trials: the sum of squares over
\* N minus the square of the sum over N.
C5_VarianceRelation ==
    Done =>
        LET smoothgrad == ModeResult("smoothgrad")
            smoothgrad_sq == ModeResult("smoothgrad_sq")
            vargrad == ModeResult("vargrad")
        IN  /\ ret.attributions.tensors = ModeResult(args.nt_type)
            /\ \A t \in 1..NumTensors : \A e \in 1..Bsz :
                  /\ vargrad[t][e] =
                        FracSub(smoothgrad_sq[t][e],
                                FracMul(smoothgrad[t][e], smoothgrad[t][e]))
                  /\ args.nt_type = "vargrad" =>
                        LET mean == Frac(SeqSum(Trials(t, e)), N)
                        IN  ret.attributions.tensors[t][e] =
                                FracSub(Frac(SeqSum(Squares(Trials(t, e))), N),
                                        FracMul(mean, mean))

\* A vargrad call over several noisy trials returning a non-zero variance.
C5_Witness ==
    /\ Done
    /\ args.nt_type = "vargrad"
    /\ N = 5 /\ S = <<2>>
    /\ \E e \in 1..Bsz : ret.attributions.tensors[1][e][1] > 0

\* All N trials of every example as one expanded batch, example-major, and
\* the accumulators a single fold of it gives.
OneShotBatch ==
    [t \in 1..NumTensors |-> Flatten([e \in 1..Bsz |-> Trials(t, e)])]

OneShotFold ==
    FoldAttributions([i \in 1..NumTensors |-> None], [i \in 1..NumTensors |-> None],
                     OneShotBatch, 1, N)

\* C6: for a fixed N and fixed per-trial attributions the aggregate does not
\* depend on how the trials are split into sub-batches: it equals the
\* aggregate of the same trials folded as one sub-batch of size N.
C6_PartitionInvariance ==
    Done =>
        LET fold == OneShotFold
        IN  ret.attributions.tensors =
                compute_smoothing(args.nt_type, Expected(fold.sum, N),
                                  Expected(fold.sq, N))

\* An even N split into two sub-batches of N/2.
C6_Witness ==
    /\ Done
    /\ N = 4 /\ S = <<2>> /\ Len(calls) = 2 /\ Bsz = 2
    /\ args.stdevs = [kind |-> "float", vals |-> <<1>>]
    /\ calls[1].attributions # calls[2].attributions

\* One direct call of the wrapped attributor on the call's inputs and kwargs.
Direct == attr_func(self.attribution_method, args.inputs, args.kwargs)

SameAsDirect ==
    /\ ret.has_delta = Direct.with_delta
    /\ ret.attributions.is_tuple = Direct.attributions.is_tuple
    /\ \A t \in 1..NumTensors : \A e \in 1..Bsz :
          ret.attributions.tensors[t][e] = Frac(Direct.attributions.tensors[t][e], 1)
    /\ ret.has_delta => ret.delta = Direct.delta

NoNoiseSingleTrial ==
    /\ Done
    /\ N = 1
    /\ args.stdevs = [kind |-> "float", vals |-> <<0>>]

\* C7 as stated: with nt_samples = 1 and stdevs = 0.0 the call returns what one
\* direct call of the deterministic wrapped attributor returns, for all valid
\* inputs.
C7_NoNoiseIdentityAllInputs ==
    NoNoiseSingleTrial => SameAsDirect

\* C7 amended: with nt_samples = 1, stdevs = 0.0, nt_type = smoothgrad and
\* draw_baseline_from_distrib = False the call returns what one direct call
\* of the deterministic wrapped attributor returns on the same inputs and
\* kwargs; with smoothgrad_sq it returns the squares of those attributions and
\* with vargrad zeros.
C7_NoNoiseIdentity ==
    NoNoiseSingleTrial =>
        /\ (args.nt_type = "smoothgrad" /\ ~args.draw_baseline_from_distrib)
              => SameAsDirect
        /\ ~args.draw_baseline_from_distrib =>
              \A t \in 1..NumTensors : \A e \in 1..Bsz :
                 LET d == Direct.attributions.tensors[t][e]
                 IN  /\ args.nt_type = "smoothgrad_sq" =>
                            ret.attributions.tensors[t][e] = Frac(d * d, 1)
                     /\ args.nt_type = "vargrad" =>
                            ret.attributions.tensors[t][e] = Frac(0, 1)

\* A single no-noise smoothgrad trial over two examples with baselines and a
\* delta.
C7_Witness ==
    /\ NoNoiseSingleTrial
    /\ args.nt_type = "smoothgrad"
    /\ ~args.draw_baseline_from_distrib
    /\ "baselines" \in DOMAIN args.kwargs
    /\ Bsz = 2
    /\ ret.has_delta
    /\ SameAsDirect

DeltaRequested ==
    /\ "return_convergence_delta" \in DOMAIN args.kwargs
    /\ args.kwargs["return_convergence_delta"]

\* C8: the call returns (attributions, delta) exactly when
\* return_convergence_delta is passed truthy and the wrapped attributor has a
\* convergence delta, and bare attributions otherwise; the delta is the
\* per-sub-batch deltas concatenated in the order the sub-batches were
\* processed, B * N entries in all.
C8_DeltaConcatenated ==
    Done =>
        /\ ret.has_delta <=>
              (DeltaRequested /\ self.attribution_method.has_convergence_delta)
        /\ ~ret.has_delta => ret.delta = None
        /\ ret.has_delta =>
              /\ ret.delta = Flatten([i \in 1..Len(calls) |-> calls[i].delta])
              /\ Len(ret.delta) = Bsz * N
              /\ \A i \in 1..Len(calls) : Len(calls[i].delta) = Bsz * calls[i].size

\* A delta over two whole sub-batches and a remainder whose parts differ.
C8_Witness ==
    /\ Done
    /\ ret.has_delta
    /\ N = 5 /\ S = <<2>> /\ Bsz = 2
    /\ Len(ret.delta) = 10
    /\ calls[1].delta # calls[2].delta

\* The per-trial deltas of example e, over all calls, in trial order.
TrialDeltas(e) ==
    Flatten([i \in 1..Len(calls) |-> RowValues(calls[i].origin, calls[i].delta, e, 1)])

\* C9: the returned delta has one value per input example, the arithmetic mean
\* of that example's nt_samples per-trial deltas.
C9_DeltaIsPerExampleMean ==
    (Done /\ ret.has_delta) =>
        /\ Len(ret.delta) = Bsz
        /\ \A e \in 1..Bsz : Frac(ret.delta[e], 1) = Frac(SeqSum(TrialDeltas(e)), N)

StdevOf(t) ==
    IF args.stdevs.kind = "tuple" THEN args.stdevs.vals[t] ELSE args.stdevs.vals[1]

\* Every row of every tensor handed to the wrapped attributor is its input
\* example plus noise of that tensor's standard deviation.
NoisePerTensor ==
    \A i \in 1..Len(calls) : \A t \in 1..NumTensors :
        \A r \in 1..Len(calls[i].inputs[t]) :
            LET noise == calls[i].inputs[t][r]
                            - args.inputs.tensors[t][calls[i].origin[r]]
            IN  noise \in {-StdevOf(t), 0, StdevOf(t)}

\* C10: with stdevs a tuple as long as the inputs tuple the call succeeds and
\* input tensor i is perturbed with noise of standard deviation stdevs[i];
\* with a single float every tensor is perturbed with that value.
C10_StdevsPerTensor ==
    (/\ args.stdevs.kind \in {"tuple", "float"}
     /\ args.stdevs.kind = "tuple" => Len(args.stdevs.vals) = NumTensors
     /\ SamplesInRange
     /\ ~InvalidType) =>
        /\ Failed => error = AttributorError
        /\ NoisePerTensor

\* ---------------------------------------------------------------- C11
\* stdevs is a tuple of the wrong length, or neither a float nor a tuple.
BadStdevs ==
    \/ args.stdevs.kind = "tuple" /\ Len(args.stdevs.vals) # NumTensors
    \/ args.stdevs.kind \notin {"float", "tuple"}

StdevsError == Raise("AssertionError", "add_noise_to_inputs")

\* C11: a call (nt_samples >= 1, nt_samples_batch_size None or >= 1) whose
\* stdevs is a tuple of a length other than the number of input tensors, or
\* neither a float nor a tuple, fails with an AssertionError not later than in
\* its first sub-batch: the wrapped attributor has completed no call, nothing
\* is returned, and with a valid nt_type the error is the one of
\* add_noise_to_inputs.
C11_BadStdevsFail ==
    (BadStdevs /\ SamplesInRange) =>
        /\ calls = <<>> /\ loop = 0
        /\ ret = None
        /\ pc \in {"INIT", "VALIDATE", "EXPAND_CONFIG", "PARTIAL_BATCH", "ERROR"}
        /\ Failed => error.type = "AssertionError"
        /\ (Failed /\ ~InvalidType) => error = StdevsError

\* A tuple of the wrong length and an int, each stopped in the first sub-batch.
C11_Witness ==
    /\ Failed /\ BadStdevs /\ SamplesInRange /\ ~InvalidType
    /\ error = StdevsError
    /\ args.stdevs.kind = "tuple"
    /\ N = 3 /\ S = <<2>>

\* ---------------------------------------------------------------- C18
\* The calls of the wrapped attributor made by the loop over the whole
\* sub-batches.
WholeCalls == 1..Min(Len(calls), nt_samples_partition)

ExpansionsOf(mapping) == {j \in 1..Len(expansions) : expansions[j].mapping = mapping}

\* C18 as stated: every whole sub-batch has an expansion of the passthrough
\* arguments of its own, so that with draw_baseline_from_distrib each whole
\* sub-batch has its own draw of baselines from the pool.
C18_ExpansionPerWholeSubBatch ==
    (args.draw_baseline_from_distrib /\ "baselines" \in DOMAIN args.kwargs) =>
        Cardinality(ExpansionsOf("kwargs_copy")) >= Cardinality(WholeCalls)

\* The baselines of an expanded mapping are one pool example per replica.
DrawnPerReplica(kw, factor) ==
    ("baselines" \in DOMAIN kw /\ args.draw_baseline_from_distrib) =>
        \A t \in 1..NumTensors :
            /\ Len(kw["baselines"][t]) = factor * Bsz
            /\ \A r \in 1..Len(kw["baselines"][t]) :
                  \E j \in 1..MaxPool : kw["baselines"][t][r] = BaselineValue(t, j)

\* C18 amended: the passthrough arguments are expanded once, by the factor
\* S' = min(N, S), before the loop, and every whole sub-batch is handed that
\* one expanded mapping: all whole sub-batches share the same drawn baselines.
C18_WholeSubBatchesShareExpansion ==
    /\ Cardinality(ExpansionsOf("kwargs_copy")) <= 1
    /\ pc \in {"PARTIAL_BATCH", "COMBINE", "RETURN", "DONE"} =>
          /\ ExpansionsOf("kwargs_copy") = {1}
          /\ expansions[1].factor = nt_samples_batch_size[1]
          /\ expansions[1].after = kwargs_copy
          /\ DrawnPerReplica(kwargs_copy, nt_samples_batch_size[1])
    /\ \A i \in WholeCalls : calls[i].kwargs = kwargs_copy

\* Two whole sub-batches given the same random draw from the pool.
C18_Witness ==
    /\ Done /\ args.draw_baseline_from_distrib
    /\ nt_samples_partition >= 2 /\ Len(calls) >= 2
    /\ calls[1].kwargs["baselines"] = calls[2].kwargs["baselines"]
    /\ \E r \in 1..Len(calls[1].kwargs["baselines"][1]) :
          calls[1].kwargs["baselines"][1][r] # calls[1].kwargs["baselines"][1][1]

\* ---------------------------------------------------------------- C19
\* C19: expanding for the whole sub-batches leaves the caller's kwargs as
\* passed; the remainder sub-batch expands that unexpanded mapping, once, by
\* the factor remainder, and hands the result to the wrapped attributor.
C19_RemainderExpandsOriginal ==
    /\ ExpansionsOf("kwargs") = {} => kwargs = args.kwargs
    /\ \A j \in ExpansionsOf("kwargs") :
          /\ j = Len(expansions)
          /\ Cardinality(ExpansionsOf("kwargs")) = 1
          /\ expansions[j].before = args.kwargs
          /\ expansions[j].factor = nt_samples_remaining
          /\ nt_samples_remaining > 0
          /\ expansions[j].after = kwargs
          /\ DrawnPerReplica(kwargs, nt_samples_remaining)
    /\ Len(calls) > nt_samples_partition =>
          /\ ExpansionsOf("kwargs") # {}
          /\ calls[Len(calls)].kwargs = kwargs
          /\ calls[Len(calls)].size = nt_samples_remaining

\* Whole sub-batches of 2 and a remainder of 1, baselines drawn from the pool.
C19_Witness ==
    /\ Done /\ args.draw_baseline_from_distrib
    /\ N = 5 /\ S = <<2>> /\ Len(calls) = 3
    /\ Len(calls[3].kwargs["baselines"][1]) = Bsz
    /\ Len(calls[1].kwargs["baselines"][1]) = 2 * Bsz

\* ---------------------------------------------------------------- C20
\* The sub-batches that have to complete before a result is returned.
SubBatchesDue ==
    nt_samples_partition + (IF nt_samples_remaining > 0 THEN 1 ELSE 0)

\* No sub-batch is skipped, and a failed call returns nothing.
FailureLeavesNoResult ==
    /\ pc \in {"PARTIAL_BATCH", "COMBINE", "RETURN", "DONE"} =>
          /\ Len(calls) >= loop
          /\ error = NoError
    /\ pc \in {"COMBINE", "RETURN", "DONE"} => Len(calls) = SubBatchesDue
    /\ Failed => (ret = None /\ attributions = None /\ delta = None)

\* A failure of the wrapped attributor ends the call there and then: the step
\* that raises completes no call and folds nothing, and no step follows it.
FailurePropagates ==
    /\ pc # "ERROR"
    /\ error' = AttributorError =>
          /\ pc' = "ERROR"
          /\ calls' = calls
          /\ sum_attributions' = sum_attributions
          /\ sum_attributions_sq' = sum_attributions_sq
          /\ delta_partial_list' = delta_partial_list

\* C20: when the wrapped attributor fails in sub-batch k the call ends with
\* that error: the sub-batch is not retried, no later sub-batch is invoked,
\* no attribution or delta is returned, and a result is returned only when
\* every sub-batch has completed.
C20_AttributorFailurePropagates ==
    []FailureLeavesNoResult /\ [][FailurePropagates]_vars

\* The wrapped attributor fails in the second sub-batch.
C20_Witness ==
    /\ Failed /\ error = AttributorError
    /\ Len(calls) = 1 /\ loop = 1 /\ nt_samples_partition >= 2
    /\ sum_attributions # <<>>
    /\ ret = None

\* ===================================================================
\* Properties of NoiseTunnel.attribute, continued (Spec)
\* ===================================================================
\* ---------------------------------------------------------------- C21
\* The rows of a sub-batch of k replicas per example that belong to example e
\* (1-based: rows (e - 1) * k + 1 .. (e - 1) * k + k).
ReplicaRows(e, k) == [j \in 1..k |-> (e - 1) * k + j]

\* The call c of the wrapped attributor was handed, in the rows of example e,
\* example e itself plus the noise drawn for those rows.
ReplicasOfOwnExample(c) ==
    LET k == c.size
    IN  \A t \in 1..NumTensors :
            /\ Len(c.inputs[t]) = Bsz * k
            /\ \E seed \in Seeds :
                  LET noise == normal(StdevOf(t), Bsz * k, seed + t)
                  IN  \A e \in 1..Bsz : \A j \in 1..k :
                         LET r == ReplicaRows(e, k)[j]
                         IN  c.inputs[t][r] = args.inputs.tensors[t][e] + noise[r]

\* The attributions call c returned for the k replicas of example e.
OwnAttributions(c, t, e) ==
    LET rows == ReplicaRows(e, c.size)
    IN  [j \in 1..c.size |-> c.attributions[t][rows[j]]]

\* The running total of example e in tensor t (nothing before the first fold).
Running(sums, t, e) == IF sums = <<>> THEN 0 ELSE sums[t][e]

\* A step that runs a sub-batch replicates example-major and folds into the
\* totals of example e the attributions of example e's own rows.
FoldsOwnReplicas ==
    calls' # calls =>
        LET c == calls'[Len(calls')]
        IN  /\ ReplicasOfOwnExample(c)
            /\ \A t \in 1..NumTensors :
                  /\ Len(sum_attributions'[t]) = Bsz
                  /\ Len(sum_attributions_sq'[t]) = Bsz
                  /\ \A e \in 1..Bsz :
                        /\ sum_attributions'[t][e] =
                              Running(sum_attributions, t, e)
                                 + SeqSum(OwnAttributions(c, t, e))
                        /\ sum_attributions_sq'[t][e] =
                              Running(sum_attributions_sq, t, e)
                                 + SeqSum(Squares(OwnAttributions(c, t, e)))

\* C21: replication and folding agree on example-major, replica-minor order.
\* In every sub-batch of size k, whole or remainder, the k rows starting at
\* e * k (0-based) are the replicas of example e, and folding the returned
\* attribution adds to the running sum and sum of squares of example e
\* exactly the attributions (their squares) returned for example e's own k
\* rows, and nothing of any other example.
C21_ExampleMajorOrder == [][FoldsOwnReplicas]_vars

\* Two whole sub-batches of two replicas and a remainder of one, with noise,
\* over two examples whose sums differ.
C21_Witness ==
    /\ Done
    /\ N = 5 /\ S = <<2>> /\ Bsz = 2 /\ NumTensors = 2
    /\ CallSizes = <<2, 2, 1>>
    /\ args.stdevs = [kind |-> "float", vals |-> <<1>>]
    /\ calls[1].inputs[1] # repeat_interleave(args.inputs.tensors[1], 2)
    /\ sum_attributions[1][1] # sum_attributions[1][2]

\* ---------------------------------------------------------------- C23
\* The accumulator lists hold one materialized tensor per attribution tensor.
AccumulatorsInitialized ==
    /\ Len(sum_attributions) = NumTensors
    /\ Len(sum_attributions_sq) = NumTensors
    /\ \A t \in 1..NumTensors :
          /\ sum_attributions[t] # None
          /\ sum_attributions_sq[t] # None

\* The loop over the whole sub-batches has run to its end.
LoopOver == pc = "PARTIAL_BATCH" /\ loop = nt_samples_partition

\* C23: with nt_samples N >= 1 and nt_samples_batch_size S >= 1 or None the
\* number of whole sub-batches is N // min(N, S) >= 1.  Hence where the loop
\* is over, which is where the remainder sub-batch is folded, and where the
\* final mean is computed, a whole sub-batch has been folded and the
\* accumulator lists are sized and initialized: the remainder never writes
\* into an empty accumulator list.
C23_WholeSubBatchFirst ==
    (SamplesInRange /\ pc # "INIT") =>
        /\ nt_samples_partition = N \div (IF S = None THEN N ELSE Min(N, S[1]))
        /\ nt_samples_partition >= 1
        /\ (LoopOver \/ pc \in {"COMBINE", "RETURN", "DONE"}) =>
              /\ AccumulatorsInitialized
              /\ Len(calls) >= 1
              /\ calls[1].size = nt_samples_batch_size[1]
        /\ \A i \in 1..Len(calls) :
              calls[i].size # nt_samples_batch_size[1] => i > 1

\* A sub-batch size above nt_samples: one whole sub-batch of N, no remainder;
\* the mean is computed over initialized accumulators.
C23_Witness ==
    /\ pc = "COMBINE"
    /\ N = 1 /\ S = <<2>>
    /\ nt_samples_batch_size = <<1>> /\ nt_samples_partition = 1
    /\ CallSizes = <<1>>
    /\ AccumulatorsInitialized

\* ---------------------------------------------------------------- C22
\* This is the caller's second call on the instance.
SecondCall == history # None

Ended == pc \in {"DONE", "ERROR"}

\* The fields of the instance are those its constructor set.
InstanceUnchanged ==
    /\ self = NoiseTunnelInit(self.attribution_method)
    /\ SecondCall => self = history.self

\* At its entry a call holds the arguments as passed and nothing of an
\* earlier call.
FreshAtEntry ==
    pc = "INIT" =>
        /\ kwargs = args.kwargs
        /\ kwargs_copy = NoKwargs
        /\ attributions = None /\ delta = None /\ ret = None

\* The accumulators are empty lists until the first sub-batch has returned,
\* and materialized from then on.
LazyAccumulators ==
    /\ Len(calls) = 0 =>
          /\ sum_attributions = <<>>
          /\ sum_attributions_sq = <<>>
          /\ delta_partial_list = <<>>
    /\ Len(calls) >= 1 => AccumulatorsInitialized

\* What expand_partial call rec gives when its draw starts from seed.
Expansion(rec, seed) ==
    expand_partial(args.inputs.tensors, rec.factor, rec.before,
                   args.draw_baseline_from_distrib, seed)

\* This call and the earlier one drew the same noise in every sub-batch and
\* started every draw of baselines from the same generator state.
SameDraws ==
    /\ Len(calls) = Len(history.calls)
    /\ \A i \in 1..Len(calls) : calls[i].inputs = history.calls[i].inputs
    /\ Len(expansions) = Len(history.expansions)
    /\ \A j \in 1..Len(expansions) :
          \E seed \in Seeds :
              /\ expansions[j].after = Expansion(expansions[j], seed)
              /\ history.expansions[j].after = Expansion(history.expansions[j], seed)

\* C22: attribute keeps no state across invocations.  A call leaves the fields
\* of the instance as the constructor set them; every call starts from the
\* arguments as passed, with empty accumulator lists that are materialized
\* only by the first sub-batch that returns; a second call with the same
\* arguments and the same random draws returns what the first returned, and
\* ends with the same error when the first ended with an error of attribute's
\* own checks.
C22_NoStateAcrossCalls ==
    /\ InstanceUnchanged
    /\ FreshAtEntry
    /\ LazyAccumulators
    /\ (SecondCall /\ Done /\ history.error = NoError /\ SameDraws) =>
          ret = history.ret
    /\ (SecondCall /\ Ended /\ history.error \notin {NoError, AttributorError}) =>
          error = history.error

\* A second call with the draws of the first, after a first call whose
\* remainder sub-batch had expanded its kwargs in place, returning the same
\* attributions and delta.
C22_Witness ==
    /\ SecondCall /\ Done /\ history.error = NoError
    /\ SameDraws
    /\ N = 5 /\ S = <<2>> /\ Bsz = 2 /\ Len(calls) = 3
    /\ args.draw_baseline_from_distrib
    /\ args.stdevs = [kind |-> "float", vals |-> <<1>>]
    /\ kwargs # args.kwargs
    /\ ret.has_delta
    /\ ret = history.ret

\* ===================================================================
\* Properties of gradient_shap.py (SpecGS)
\* ===================================================================
IsCall(class, method) == entry = [class |-> class, method |-> method]

\* ---------------------------------------------------------------- C12
FutureCalled == entry.method = "attribute_future"

\* A call of attribute_future has returned nothing, has evaluated nothing and
\* is either about to raise or has raised NotImplementedError.
FutureNeverReturns ==
    FutureCalled =>
        /\ gs_pc \in {"FUTURE", "ERROR"}
        /\ gs_pc = "ERROR" => gs_error = NotImplemented(entry.class)
        /\ gs_ret = None /\ ret = None
        /\ gradient_calls = <<>> /\ forward_calls = 0 /\ calls = <<>>

\* Its only step raises, and leaves the receiver's fields as they were.
FutureRaisesAtOnce ==
    FutureCalled =>
        /\ gs_pc = "FUTURE" /\ gs_pc' = "ERROR"
        /\ gs_self' = gs_self /\ self' = self

\* C12: attribute_future of NoiseTunnel, GradientShap and
\* InputBaselineXGradient fails at once with NotImplementedError: it returns
\* no value, calls neither the forward function nor the gradient engine, and
\* leaves the object's fields unchanged.
C12_AttributeFutureNotImplemented ==
    []FutureNeverReturns /\ [][FutureRaisesAtOnce]_vars

C12_Witness ==
    /\ IsCall("GradientShap", "attribute_future")
    /\ gs_pc = "ERROR"
    /\ gs_error.type = "NotImplementedError"
    /\ gs_self = GradientShapInit("linear", TRUE)

\* ---------------------------------------------------------------- C13
\* GradientShap.attribute called with baselines that resolve to a bundle
\* whose first element is not a tensor.
NonTensorBaselines ==
    /\ IsCall("GradientShap", "attribute")
    /\ ~_format_callable_baseline(gs_args.baselines, gs_args.inputs).is_tensor

\* C13: GradientShap.attribute with resolved baselines whose first element is
\* not a tensor fails with an AssertionError before the
\* InputBaselineXGradient and the NoiseTunnel are constructed and before any
\* call of the gradient engine (or of the wrapped attributor).
C13_NonTensorBaselinesRejected ==
    NonTensorBaselines =>
        /\ gs_pc \in {"GS_INIT", "ERROR"}
        /\ gs_pc = "ERROR" =>
              gs_error = Raise("AssertionError", "GradientShap.attribute")
        /\ input_min_baseline_x_grad = None /\ self = None /\ pc = "IDLE"
        /\ calls = <<>> /\ gradient_calls = <<>>
        /\ gs_ret = None

\* A callable that returns a scalar baseline.
C13_Witness ==
    /\ NonTensorBaselines
    /\ gs_args.baselines.callable
    /\ gs_pc = "ERROR"
    /\ gs_error.type = "AssertionError"

\* ---------------------------------------------------------------- C14
Delegated ==
    /\ IsCall("GradientShap", "attribute")
    /\ input_min_baseline_x_grad # None

\* C14: GradientShap.attribute hands the call to NoiseTunnel.attribute over a
\* fresh InputBaselineXGradient (same forward function and multiply_by_inputs)
\* with nt_type smoothgrad, draw_baseline_from_distrib True, nt_samples =
\* n_samples and no nt_samples_batch_size: the wrapped attributor is called at
\* most once, on all n_samples replicas of every example, each with a baseline
\* drawn from the pool; what NoiseTunnel.attribute returns is returned as is.
C14_DelegatesToNoiseTunnel ==
    /\ (IsCall("GradientShap", "attribute") /\ ~Delegated) =>
          (pc = "IDLE" /\ self = None /\ calls = <<>>)
    /\ Delegated =>
          /\ gs_pc \in {"GS_DELEGATED", "DONE", "ERROR"}
          /\ input_min_baseline_x_grad =
                InputBaselineXGradientInit(gs_self.forward_func,
                                           gs_self._multiply_by_inputs)
          /\ self = NoiseTunnelInit(input_min_baseline_x_grad)
          /\ args.inputs = gs_args.inputs
          /\ args.nt_type = "smoothgrad"
          /\ args.nt_samples = gs_args.n_samples
          /\ args.nt_samples_batch_size = None
          /\ args.stdevs = gs_args.stdevs
          /\ args.draw_baseline_from_distrib
          /\ args.kwargs["baselines"] = gs_baselines.tensors
          /\ args.kwargs["return_convergence_delta"] = gs_args.return_convergence_delta
          /\ Len(calls) <= 1 /\ Len(expansions) <= 1
          /\ \A i \in 1..Len(calls) :
                /\ calls[i].size = gs_args.n_samples
                /\ \A t \in 1..NumTensors :
                      Len(calls[i].inputs[t]) = gs_args.n_samples * Bsz
                /\ DrawnPerReplica(calls[i].kwargs, gs_args.n_samples)
          /\ gs_pc = "DONE" => (pc = "DONE" /\ gs_ret = ret /\ Len(calls) = 1)
          /\ gs_pc = "ERROR" => (pc = "ERROR" /\ gs_error = error /\ gs_ret = None)

\* Three trials of two examples in one sub-batch, with a delta.
C14_Witness ==
    /\ Delegated /\ gs_pc = "DONE"
    /\ gs_args.n_samples = 3 /\ Bsz = 2
    /\ Len(calls) = 1 /\ calls[1].size = 3
    /\ gs_ret.has_delta
    /\ gs_ret.attributions = ret.attributions

\* ---------------------------------------------------------------- C15
GsInputs == gs_args.inputs.tensors

IBGCalled == IsCall("InputBaselineXGradient", "attribute")

\* The positions of tensor t of a bundle.
Positions(x, t) == {<<r, c>> : r \in 1..Rows(x[t]), c \in 1..Cols(x[t])}

\* C15: InputBaselineXGradient.attribute returns, per tensor and element,
\* gradient * (input - baseline) if multiply_by_inputs and the gradient
\* otherwise, the gradient being what the gradient engine returned at the
\* scaled input; for the linear model that is w * (input - baseline) and w.
C15_GradientTimesInputMinusBaseline ==
    (IBGCalled /\ gs_pc = "DONE") =>
        /\ gradient_calls = <<input_baseline_scaled>>
        /\ grads = gradient_func(gs_self.forward_func, gradient_calls[1])
        /\ gs_ret.attributions.is_tuple = gs_args.inputs.is_tuple
        /\ Len(gs_ret.attributions.tensors) = Len(GsInputs)
        /\ \A t \in 1..Len(GsInputs) :
              /\ Positions(gs_ret.attributions.tensors, t) = Positions(grads, t)
              /\ \A p \in Positions(grads, t) :
                    LET g == grads[t][p[1]][p[2]]
                        diff == FracSub(At(GsInputs[t], p[1], p[2]),
                                        At(gs_baselines[t], p[1], p[2]))
                        a == gs_ret.attributions.tensors[t][p[1]][p[2]]
                    IN  /\ gs_self._multiply_by_inputs => a = FracMul(g, diff)
                        /\ ~gs_self._multiply_by_inputs => a = g
                        /\ gs_self.forward_func = "linear" =>
                              g = ToFrac(Weight(t, p[2]))
                        /\ gs_self.forward_func = "square" =>
                              g = input_baseline_scaled[t][p[1]][p[2]]

\* A non-linear model, multiplied by inputs, with a coefficient inside (0, 1).
C15_Witness ==
    /\ IBGCalled /\ gs_pc = "DONE"
    /\ gs_self._multiply_by_inputs /\ gs_self.forward_func = "square"
    /\ gs_args.inputs.is_tuple
    /\ rand_coefficient[1] = <<1, 2>>
    /\ Rows(gs_baselines[1]) = Rows(GsInputs[1])
    /\ Cols(gs_baselines[1]) = Cols(GsInputs[1])
    /\ gs_ret.attributions.tensors[1][1][1] # grads[1][1][1]

\* ---------------------------------------------------------------- C16
\* The coefficient of the example that row r of a scaled input belongs to.
CoefficientOf(t, r) == rand_coefficient[IF Rows(GsInputs[t]) = 1 THEN 1 ELSE r]

InUnitInterval(q) == 0 <= q[1] /\ q[1] <= q[2]

\* C16: one coefficient in [0, 1] is drawn per example per call and used for
\* every tensor and every feature of that example: scaled_input = c * input +
\* (1 - c) * baseline, the input when c = 1 and the baseline when c = 0.
C16_OneCoefficientPerExample ==
    (IBGCalled /\ gs_pc # "IBG_INIT") =>
        /\ Len(rand_coefficient) = Rows(GsInputs[1])
        /\ \A e \in 1..Len(rand_coefficient) : InUnitInterval(rand_coefficient[e])
        /\ gs_pc # "ERROR" =>
              /\ Len(input_baseline_scaled) = Len(GsInputs)
              /\ \A t \in 1..Len(GsInputs) :
                    \A p \in Positions(input_baseline_scaled, t) :
                        LET c == CoefficientOf(t, p[1])
                            x == At(GsInputs[t], p[1], p[2])
                            b == At(gs_baselines[t], p[1], p[2])
                            scaled == input_baseline_scaled[t][p[1]][p[2]]
                        IN  /\ scaled = FracAdd(FracMul(c, x),
                                                FracMul(FracSub(<<1, 1>>, c), b))
                            /\ c = <<1, 1>> => scaled = x
                            /\ c = <<0, 1>> => scaled = b

\* Two examples with different coefficients, two tensors.
C16_Witness ==
    /\ IBGCalled /\ gs_pc = "IBG_GRADIENT"
    /\ gs_args.inputs.is_tuple
    /\ Len(rand_coefficient) = 2
    /\ rand_coefficient[1] = <<0, 1>> /\ rand_coefficient[2] = <<1, 1>>
    /\ Rows(gs_baselines[2]) = 2 /\ Cols(gs_baselines[2]) = Cols(GsInputs[2])
    /\ input_baseline_scaled[2][1] = gs_baselines[2][1]
    /\ input_baseline_scaled[2][2] = GsInputs[2][2]
    /\ gs_baselines[2][2] # GsInputs[2][2]

\* ---------------------------------------------------------------- C17
\* Some input tensor and its baseline tensor differ outside the example axis.
ShapeMismatch ==
    /\ IBGCalled /\ gs_args.baselines.is_tensor
    /\ \E t \in 1..Len(GsInputs) :
          Cols(GsInputs[t]) # Cols(gs_args.baselines.tensors[t])

\* Some input tensor and its baseline cannot be broadcast against each other.
Unbroadcastable ==
    /\ IBGCalled
    /\ \E t \in 1..Len(GsInputs) :
          ~Broadcastable(GsInputs[t], gs_args.baselines.tensors[t])

=============================================================================
